---------------------------- MODULE Spec2Model ----------------------------
(***************************************************************************)
(* A model of the mogi_statechart execution core: Chart::process (the      *)
(* Entry / Do / Exit machine), the run modes of Chart, Transition's guard  *)
(* and event gating, and Event::trigger.                                   *)
(*                                                                         *)
(* The program that is modelled builds two charts, as the test fixtures    *)
(* of test/run_test.cpp and test/event_test.cpp do, and then drives one of *)
(* them:                                                                   *)
(*                                                                         *)
(*   chart "A":  initial --a0--> s1 --a1--> final                          *)
(*   chart "M":  initial --m0--> s1 --m1[e1, x]--> S --m3[e1|e2]--> s1     *)
(*                               s1 --m2[x, y]--> final                    *)
(*   chart "S" (added to "M" with addSubchart):                            *)
(*               initial --u0--> a --u1[e1, y]--> final                    *)
(*                                                                         *)
(* [e..] are subscribed events, [x, y] guards reading the user's booleans. *)
(***************************************************************************)
EXTENDS Naturals, Sequences, FiniteSets, TLC

None == "none"
NoEvent == "noevent"

(* Bound of the step counter nsteps. *)
MaxSteps == 4

Charts == {"A", "M", "S"}
Leaves == {"A.initial", "A.s1", "A.final",
           "M.initial", "M.s1", "M.final",
           "S.initial", "S.a", "S.final"}
States == Leaves \cup Charts
Events == {"e1", "e2"}
Transitions == {"a0", "a1", "m0", "m1", "m2", "m3", "u0", "u1"}
UserVars == {"x", "y"}
CallbackIds == {"k1", "k2", "k3", "k4"}

(* AbstractState::container of every state; a root chart has none. *)
Container(s) ==
  CASE s \in {"A.initial", "A.s1", "A.final"} -> "A"
    [] s \in {"M.initial", "M.s1", "M.final", "S"} -> "M"
    [] s \in {"S.initial", "S.a", "S.final"} -> "S"
    [] OTHER -> None

(* AbstractState::name(). *)
Name(s) ==
  CASE s \in {"A.initial", "M.initial", "S.initial"} -> "initial"
    [] s \in {"A.final", "M.final", "S.final"} -> "final"
    [] s \in {"A.s1", "M.s1"} -> "s1"
    [] s = "S.a" -> "a"
    [] OTHER -> s

(* The transitions the program creates: src, dst, subscribed events and   *)
(* the guards, each guard named by the user boolean its predicate reads.  *)
TransitionTable ==
  [t \in Transitions |->
    CASE t = "a0" -> [src |-> "A.initial", dst |-> "A.s1", events |-> {}, guards |-> <<>>]
      [] t = "a1" -> [src |-> "A.s1", dst |-> "A.final", events |-> {}, guards |-> <<>>]
      [] t = "m0" -> [src |-> "M.initial", dst |-> "M.s1", events |-> {}, guards |-> <<>>]
      [] t = "m1" -> [src |-> "M.s1", dst |-> "S", events |-> {"e1"}, guards |-> <<"x">>]
      [] t = "m2" -> [src |-> "M.s1", dst |-> "M.final", events |-> {}, guards |-> <<"x", "y">>]
      [] t = "m3" -> [src |-> "S", dst |-> "M.s1", events |-> {"e1", "e2"}, guards |-> <<>>]
      [] t = "u0" -> [src |-> "S.initial", dst |-> "S.a", events |-> {}, guards |-> <<>>]
      [] t = "u1" -> [src |-> "S.a", dst |-> "S.final", events |-> {"e1"}, guards |-> <<"y">>]]

Src(t) == TransitionTable[t].src
Dst(t) == TransitionTable[t].dst
EventsOf(t) == TransitionTable[t].events
GuardsOf(t) == TransitionTable[t].guards
(* Transition::container: the chart of the source state. *)
ChartOf(t) == Container(Src(t))

VARIABLES
  root,                  \* the chart the program drives (it has no container)
  states_,               \* Chart::states_: per chart, name -> state
  outgoingTransitions,   \* AbstractState::outgoingTransitions, in iteration order
  currentState,          \* Chart::currentState
  pendingTransition,     \* Chart::pendingTransition
  processState,          \* Chart::processState
  is_active_,            \* AbstractState::is_active_
  eventTriggered_,       \* Transition::eventTriggered_
  stateChangeCallbacks,  \* Chart::stateChangeCallbacks
  uv,                    \* the user's booleans read by the guard predicates
  user,                  \* the call the user thread is executing
  pc,                    \* per chart: position inside Chart::process
  log,                   \* callbacks invoked in the current step, in order
  armed,                 \* per transition: an event of it was triggered while
                         \*   its source was active, and no Do tick examined it since
  fresh,                 \* per transition: an event of it was triggered while its
                         \*   source was active, after the source's last Entry, and
                         \*   no Do tick examined it since
  spent,                 \* per transition: a Do tick consumed a trigger while the
                         \*   guards were false, and no event of it was triggered since
  stepped,               \* per chart: a step completed since creation or reset
  nsteps,                \* steps of the root completed since creation or reset
  snap,                  \* transitions that were due when spinOnce() was called
  is_running_,           \* Chart::is_running_ of the root
  process_thread_,       \* Chart::process_thread_ of the root: "none" (not joinable),
                         \*   "running" (in its loop) or "finished" (returned, not joined)
  exit_signal_,          \* the promise Chart::exit_signal_ has its value
  notifying,             \* observers Event::trigger() still has to notify
  other,                 \* the call a second foreign thread is executing
  label,                 \* AbstractState::label of the objects built at run time
  container,             \* AbstractState::container of the objects built at run time
  dst,                   \* Transition::dst of the transitions built at run time
  expired,               \* objects that were destroyed: a weak_ptr to them is expired
  events_,               \* Transition::events_ of the transitions built at run time
  eventCallbacks,        \* AbstractState::eventCallbacks: the events with a callback
  eventObservers,        \* Event::eventObservers registered at run time, in order
  ret,                   \* the last configuration call and what it returned
  removed,               \* what the last configuration call erased from a chart
  invoked                \* event callbacks the last Event::trigger() invoked, in order

vars == <<root, states_, outgoingTransitions, currentState, pendingTransition,
          processState, is_active_, eventTriggered_, stateChangeCallbacks, uv,
          user, pc, log, armed, fresh, spent, stepped, nsteps, snap,
          is_running_, process_thread_, exit_signal_, notifying, other,
          label, container, dst, expired, events_, eventCallbacks, eventObservers,
          ret, removed, invoked>>

(* What the configuration calls work on. *)
confVars == <<label, container, dst, expired, events_, eventCallbacks,
              eventObservers, ret, removed>>

(* One record of ret: the call op returned val, a handle, None for a     *)
(* null handle or no value, a boolean written by Bool(), or "error" for   *)
(* the std::runtime_error the call threw.                                 *)
Call(op, val) == [op |-> op, val |-> val]

(* One record of removed: removeState() on chart c erased object o. *)
Erased(c, o) == [chart |-> c, obj |-> o]
NothingErased == Erased(None, None)
Bool(b) == IF b THEN "true" ELSE "false"

Idle == [op |-> "none", arg |-> ""]

(* The second foreign thread: q holds the observers its Event::trigger()  *)
(* still has to notify.                                                   *)
OtherIdle == [op |-> "none", arg |-> "", q |-> <<>>]

(* std::terminate() was called: no thread of the program runs any more. *)
Dead == [op |-> "dead", arg |-> ""]
OtherDead == [op |-> "dead", arg |-> "", q |-> <<>>]

(* The user's call has done its work and is about to return. *)
Returning(call) == [op |-> "returning", arg |-> call]

(* One record of log: kind k is "entry", "do", "exit" (of state id),     *)
(* "action" (of transition id; x tells whether the source was still      *)
(* marked active) or "change" (state-change callback id, x its argument).*)
Rec(k, id, x) == [k |-> k, id |-> id, x |-> x]

(***************************************************************************)
(* Pure parts of the code.                                                 *)
(***************************************************************************)

(* Chart::hasState(name). *)
HasState(sts, c, n) == n \in DOMAIN sts[c]

(* Chart::getInitialState(): states_.at("initial"). *)
InitialOf(sts, c) == sts[c]["initial"]

(* An isActive() that looks at the own flag only. *)
IsActiveOwnFlagOnly(s, act) ==
  IF Container(s) = None THEN TRUE ELSE act[s]

(* AbstractState::isActive(): true without a container; the own flag for *)
(* a state of a chart that has no container; otherwise the own flag and  *)
(* the container's isActive().                                           *)
RECURSIVE IsActive(_, _)
IsActive(s, act) ==
  LET c == Container(s)
  IN IF c = None THEN TRUE
     ELSE IF Container(c) = None THEN act[s]
     ELSE act[s] /\ IsActive(c, act)

(* AbstractState::outmostContainer(). *)
RECURSIVE OutmostContainer(_)
OutmostContainer(s) ==
  LET c == Container(s)
  IN IF c = None THEN s
     ELSE IF Container(c) = None THEN c ELSE OutmostContainer(c)

(* Guard::isSatisfied(): the predicate reads one user boolean. *)
IsSatisfied(g, u) == u[g]

(* Transition::guardsSatisfied(): shouldPerform &= g->isSatisfied() over *)
(* the guards, starting from true.                                       *)
RECURSIVE GuardsFold(_, _, _, _)
GuardsFold(gs, i, u, acc) ==
  IF i > Len(gs) THEN acc
  ELSE GuardsFold(gs, i + 1, u, acc /\ IsSatisfied(gs[i], u))

(* A guardsSatisfied() that assigns instead of and-ing: only the last   *)
(* guard counts.                                                         *)
GuardsSatisfiedLastOnly(t, u) ==
  IF GuardsOf(t) = <<>> THEN TRUE
  ELSE IsSatisfied(GuardsOf(t)[Len(GuardsOf(t))], u)

GuardsSatisfied(t, u) == GuardsFold(GuardsOf(t), 1, u, TRUE)

(* A shouldPerform() that clears the flag only when it returns true. *)
ShouldPerformKeepsFlag(t, trg, u) ==
  IF Cardinality(EventsOf(t)) <= 0
  THEN [ret |-> GuardsSatisfied(t, u), flag |-> trg]
  ELSE [ret |-> trg /\ GuardsSatisfied(t, u),
        flag |-> IF trg /\ GuardsSatisfied(t, u) THEN FALSE ELSE trg]

(* A shouldPerform() that does not look at the flag. *)
ShouldPerformIgnoresEvents(t, trg, u) ==
  [ret |-> GuardsSatisfied(t, u), flag |-> FALSE]

(* Transition::shouldPerform(): the result and the value eventTriggered_ *)
(* is left with.                                                         *)
ShouldPerform(t, trg, u) ==
  IF Cardinality(EventsOf(t)) <= 0
  THEN [ret |-> GuardsSatisfied(t, u), flag |-> trg]
  ELSE [ret |-> IF trg THEN GuardsSatisfied(t, u) ELSE FALSE, flag |-> FALSE]

(* A notify() that returns before the store. *)
NotifyDropsTrigger(t, trg, act) == trg

(* A notify() without the check of the source state. *)
NotifyWithoutActiveCheck(t, trg, act) == TRUE

(* Transition::notify() when no pause is needed: the value eventTriggered_ *)
(* is left with.                                                           *)
Notify(t, trg, act) ==
  IF ~IsActive(Src(t), act) THEN trg ELSE TRUE

(* Event::trigger() as seen by the transitions: every observing transition *)
(* is notified; e = NoEvent stands for a callback that triggers nothing.   *)
TriggerFlags(e, flags, act) ==
  [t \in Transitions |->
     IF e \in EventsOf(t) THEN Notify(t, flags[t], act) ELSE flags[t]]

(* A notify() of a state that does not look at isActive(). *)
InvokedWithoutActiveCheck(e, inv, act, cbs, obs) ==
  IF e = NoEvent THEN inv
  ELSE LET q == SelectSeq(obs[e], LAMBDA s : e \in cbs[s])
       IN [i \in 1..Len(q) |-> <<q[i], e>>]

(* Event::trigger() as seen by the states: every observing state that    *)
(* isActive() invokes the callback it holds for e.  The result is the     *)
(* sequence of <<state, event>> invoked; e = NoEvent triggers nothing.    *)
InvokedAfter(e, inv, act, cbs, obs) ==
  IF e = NoEvent THEN inv
  ELSE LET q == SelectSeq(obs[e], LAMBDA s : IsActive(s, act) /\ e \in cbs[s])
       IN [i \in 1..Len(q) |-> <<q[i], e>>]

(* AbstractState::purgeExpiredTransitions(): keeps the transitions whose *)
(* destination is found, by name, in the container's states_.            *)
PurgeExpired(ts, sts) ==
  SelectSeq(ts, LAMBDA t: HasState(sts, ChartOf(t), Name(Dst(t))))

(* The find_if the code has in a comment: the examination stops at the   *)
(* first transition whose shouldPerform() returns true.                  *)
RECURSIVE ExamineUntilFirst(_, _, _, _, _)
ExamineUntilFirst(ts, i, flags, u, win) ==
  IF i > Len(ts) \/ win # None THEN [flags |-> flags, win |-> win]
  ELSE LET r == ShouldPerform(ts[i], flags[ts[i]], u)
       IN ExamineUntilFirst(ts, i + 1, [flags EXCEPT ![ts[i]] = r.flag], u,
                            IF r.ret THEN ts[i] ELSE win)

(* The for_each of the Do phase: shouldPerform() on every outgoing       *)
(* transition in iteration order; the last one that returns true wins.   *)
RECURSIVE ExamineAll(_, _, _, _, _)
ExamineAll(ts, i, flags, u, win) ==
  IF i > Len(ts) THEN [flags |-> flags, win |-> win]
  ELSE LET r == ShouldPerform(ts[i], flags[ts[i]], u)
       IN ExamineAll(ts, i + 1, [flags EXCEPT ![ts[i]] = r.flag], u,
                     IF r.ret THEN ts[i] ELSE win)

(* A single process() in place of the do-while. *)
KeepProcessingNever(p) == FALSE

(* A do-while that goes on only through the Exit phase. *)
KeepProcessingWhileExit(p) == p = "Exit"

(* The do-while of Chart::spinOnce, Chart::actionDo and of the thread of *)
(* Chart::spinAsync: process() again while the phase is not Do.          *)
KeepProcessing(p) == p # "Do"

(* The while of Chart::spinToState. *)
NotAtState(cs, name) == Name(cs) # name

(* A thread that looks at the exit signal after every process(). *)
ThreadLoopChecksSignalFirst(p, sig) ==
  IF sig THEN "exit" ELSE IF KeepProcessing(p) THEN "tick" ELSE "step"

(* A thread that returns after its first step. *)
ThreadLoopOneStep(p, sig) ==
  IF KeepProcessing(p) THEN "tick" ELSE "exit"

(* The loops of the thread started by Chart::spinAsync, after a process() *)
(* that left phase p, sig telling whether the exit signal is set: "tick"  *)
(* = the inner do-while goes on, "step" = the outer one does, "exit" =    *)
(* the thread function returns.                                           *)
ThreadLoop(p, sig) ==
  IF KeepProcessing(p) THEN "tick" ELSE IF sig THEN "exit" ELSE "step"

(* A run mode that never refuses. *)
RefusesNever(running) == FALSE

(* The early return of Chart::spin, Chart::spinOnce and Chart::spinToState. *)
Refuses(running) == running

(* The observers of event e, in the order the program subscribed them. *)
EventObservers(e) ==
  IF e = "e1" THEN <<"m1", "m3", "u1">> ELSE <<"m3">>

SeqToSet(q) == {q[i] : i \in DOMAIN q}

(* What a user callback may do besides being recorded: trigger one event *)
(* or none.                                                              *)
Oracle == Events \cup {NoEvent}

(* armed and spent after Event::trigger() of e. *)
ArmedAfter(e, ar, act) ==
  [t \in Transitions |-> IF e \in EventsOf(t) /\ IsActive(Src(t), act) THEN TRUE ELSE ar[t]]

SpentAfter(e, sp) ==
  [t \in Transitions |-> IF e \in EventsOf(t) THEN FALSE ELSE sp[t]]

(* fresh after the Entry phase of state cs: what was triggered before the *)
(* state was entered belongs to an earlier activation.                    *)
FreshAfterEntry(fr, cs) ==
  [t \in Transitions |-> IF Src(t) = cs THEN FALSE ELSE fr[t]]

AllGuardsTrue(t, u) == \A i \in DOMAIN GuardsOf(t) : u[GuardsOf(t)[i]]

(***************************************************************************)
(* The state after the program has built its charts.                       *)
(***************************************************************************)
Init ==
  /\ root \in {"A", "M"}
  /\ states_ = [c \in Charts |->
        CASE c = "A" -> [n \in {"initial", "s1", "final"} |->
                           CASE n = "initial" -> "A.initial" [] n = "s1" -> "A.s1" [] OTHER -> "A.final"]
          [] c = "M" -> [n \in {"initial", "s1", "S", "final"} |->
                           CASE n = "initial" -> "M.initial" [] n = "s1" -> "M.s1"
                             [] n = "S" -> "S" [] OTHER -> "M.final"]
          [] OTHER -> [n \in {"initial", "a", "final"} |->
                           CASE n = "initial" -> "S.initial" [] n = "a" -> "S.a" [] OTHER -> "S.final"]]
  /\ \E o \in {<<"m1", "m2">>, <<"m2", "m1">>} :
       outgoingTransitions = [s \in States |->
         CASE s = "A.initial" -> <<"a0">> [] s = "A.s1" -> <<"a1">>
           [] s = "M.initial" -> <<"m0">> [] s = "M.s1" -> o
           [] s = "S" -> <<"m3">>
           [] s = "S.initial" -> <<"u0">> [] s = "S.a" -> <<"u1">>
           [] OTHER -> <<>>]
  /\ currentState = [c \in Charts |-> InitialOf(states_, c)]
  /\ pendingTransition = [c \in Charts |-> None]
  /\ processState = [c \in Charts |-> "Entry"]
  /\ is_active_ = [s \in States |-> FALSE]
  /\ eventTriggered_ = [t \in Transitions |-> FALSE]
  /\ stateChangeCallbacks = [c \in Charts |->
        CASE c = "A" -> <<"k1">> [] c = "M" -> <<"k3">> [] OTHER -> <<"k4">>]
  /\ uv = [v \in UserVars |-> FALSE]
  /\ user = Idle
  /\ pc = [c \in Charts |-> "idle"]
  /\ log = <<>>
  /\ armed = [t \in Transitions |-> FALSE]
  /\ fresh = [t \in Transitions |-> FALSE]
  /\ spent = [t \in Transitions |-> FALSE]
  /\ stepped = [c \in Charts |-> FALSE]
  /\ nsteps = 0
  /\ snap = {}
  /\ is_running_ = FALSE
  /\ process_thread_ = "none"
  /\ exit_signal_ = FALSE
  /\ notifying = <<>>
  /\ other = OtherIdle
  /\ label = <<>>
  /\ container = <<>>
  /\ dst = <<>>
  /\ expired = {}
  /\ events_ = <<>>
  /\ eventCallbacks = [s \in States |-> {}]
  /\ eventObservers = [e \in Events |-> <<>>]
  /\ ret = Call("none", None)
  /\ removed = NothingErased
  /\ invoked = <<>>

Bump(n) == IF n < MaxSteps THEN n + 1 ELSE n

(***************************************************************************)
(* Chart::process(), one action per phase part.  pc[c] = "begin" is the    *)
(* call of process() on chart c; Finish is the return of process() into    *)
(* the loop that called it.                                                *)
(***************************************************************************)

(* process() of chart c returned with phase p and current state cs. *)
Finish(c, p, cs) ==
  IF Container(c) # None
  THEN (* the do-while of Chart::actionDo, called by the container's Do phase *)
       /\ pc' = IF KeepProcessing(p) THEN [pc EXCEPT ![c] = "begin"]
                ELSE [pc EXCEPT ![c] = "idle", ![Container(c)] = "D_eval"]
       /\ stepped' = IF KeepProcessing(p) THEN stepped ELSE [stepped EXCEPT ![c] = TRUE]
       /\ UNCHANGED <<user, nsteps, snap, process_thread_>>
  ELSE IF process_thread_ = "running"
  THEN (* the loops of the thread of Chart::spinAsync *)
       LET todo == ThreadLoop(p, exit_signal_)
       IN /\ pc' = [pc EXCEPT ![c] = IF todo = "exit" THEN "idle" ELSE "begin"]
          /\ process_thread_' = IF todo = "exit" THEN "finished" ELSE "running"
          /\ stepped' = IF p = "Do" THEN [stepped EXCEPT ![c] = TRUE] ELSE stepped
          /\ nsteps' = IF p = "Do" THEN Bump(nsteps) ELSE nsteps
          /\ UNCHANGED <<user, snap>>
  ELSE IF user.op = "spinOnce"
  THEN (* the do-while of Chart::spinOnce *)
       IF KeepProcessing(p)
       THEN /\ pc' = [pc EXCEPT ![c] = "begin"]
            /\ UNCHANGED <<user, stepped, nsteps, snap, process_thread_>>
       ELSE /\ pc' = [pc EXCEPT ![c] = "idle"]
            /\ user' = Idle
            /\ stepped' = [stepped EXCEPT ![c] = TRUE]
            /\ nsteps' = Bump(nsteps)
            /\ snap' = {}
            /\ UNCHANGED process_thread_
  ELSE IF user.op = "spin"
  THEN (* the while (true) of Chart::spin *)
       /\ pc' = [pc EXCEPT ![c] = "begin"]
       /\ stepped' = IF p = "Do" THEN [stepped EXCEPT ![c] = TRUE] ELSE stepped
       /\ nsteps' = IF p = "Do" THEN Bump(nsteps) ELSE nsteps
       /\ UNCHANGED <<user, snap, process_thread_>>
  ELSE (* the while of Chart::spinToState *)
       /\ pc' = IF NotAtState(cs, user.arg) THEN [pc EXCEPT ![c] = "begin"]
                ELSE [pc EXCEPT ![c] = "idle"]
       /\ user' = IF NotAtState(cs, user.arg) THEN user ELSE Idle
       /\ stepped' = IF p = "Do" THEN [stepped EXCEPT ![c] = TRUE] ELSE stepped
       /\ nsteps' = IF p = "Do" THEN Bump(nsteps) ELSE nsteps
       /\ UNCHANGED <<snap, process_thread_>>

(* An Entry phase that leaves the pending transition in place. *)
ProcessEntryKeepsPending(c) ==
  /\ pc[c] = "begin" /\ processState[c] = "Entry"
  /\ \E ev \in Oracle :
       LET pt == pendingTransition[c]
           cs == IF pt # None THEN Dst(pt) ELSE currentState[c]
       IN IF cs \in Charts
          THEN /\ ev = NoEvent
               /\ currentState' = [currentState EXCEPT ![c] = cs, ![cs] = InitialOf(states_, cs)]
               /\ pendingTransition' = [pendingTransition EXCEPT ![cs] = None]
               /\ processState' = [processState EXCEPT ![cs] = "Entry"]
               /\ is_active_' = [is_active_ EXCEPT ![currentState[cs]] = FALSE]
               /\ stepped' = [stepped EXCEPT ![cs] = FALSE]
               /\ UNCHANGED <<eventTriggered_, armed, fresh, spent, invoked>>
          ELSE /\ currentState' = [currentState EXCEPT ![c] = cs]
               /\ UNCHANGED pendingTransition
               /\ eventTriggered_' = TriggerFlags(ev, eventTriggered_, is_active_)
               /\ invoked' = InvokedAfter(ev, invoked, is_active_, eventCallbacks, eventObservers)
               /\ armed' = ArmedAfter(ev, armed, is_active_)
               /\ fresh' = ArmedAfter(ev, fresh, is_active_)
               /\ spent' = SpentAfter(ev, spent)
               /\ UNCHANGED <<processState, is_active_, stepped>>
  /\ log' = Append(log, Rec("entry", IF pendingTransition[c] # None
                                     THEN Dst(pendingTransition[c]) ELSE currentState[c], ""))
  /\ pc' = [pc EXCEPT ![c] = "E_cb"]
  /\ UNCHANGED <<is_running_, process_thread_, exit_signal_, notifying, other>>
  /\ UNCHANGED <<root, states_, outgoingTransitions, stateChangeCallbacks, uv, user, nsteps, snap>>
  /\ UNCHANGED confVars

(* An Entry phase whose actionEntry() leaves a chart used as a state as   *)
(* it was when it was last left.                                          *)
ProcessEntryKeepsSubchart(c) ==
  /\ pc[c] = "begin" /\ processState[c] = "Entry"
  /\ \E ev \in Oracle :
       LET pt == pendingTransition[c]
           cs == IF pt # None THEN Dst(pt) ELSE currentState[c]
       IN IF cs \in Charts
          THEN /\ ev = NoEvent
               /\ currentState' = [currentState EXCEPT ![c] = cs]
               /\ pendingTransition' = [pendingTransition EXCEPT ![c] = None]
               /\ UNCHANGED <<processState, is_active_, stepped>>
               /\ UNCHANGED <<eventTriggered_, armed, fresh, spent, invoked>>
          ELSE /\ currentState' = [currentState EXCEPT ![c] = cs]
               /\ pendingTransition' = [pendingTransition EXCEPT ![c] = None]
               /\ eventTriggered_' = TriggerFlags(ev, eventTriggered_, is_active_)
               /\ invoked' = InvokedAfter(ev, invoked, is_active_, eventCallbacks, eventObservers)
               /\ armed' = ArmedAfter(ev, armed, is_active_)
               /\ fresh' = ArmedAfter(ev, fresh, is_active_)
               /\ spent' = SpentAfter(ev, spent)
               /\ UNCHANGED <<processState, is_active_, stepped>>
  /\ log' = Append(log, Rec("entry", IF pendingTransition[c] # None
                                     THEN Dst(pendingTransition[c]) ELSE currentState[c], ""))
  /\ pc' = [pc EXCEPT ![c] = "E_cb"]
  /\ UNCHANGED <<is_running_, process_thread_, exit_signal_, notifying, other>>
  /\ UNCHANGED <<root, states_, outgoingTransitions, stateChangeCallbacks, uv, user, nsteps, snap>>
  /\ UNCHANGED confVars

(* Entry phase, chart.cpp lines 177-184: take the pending transition and *)
(* call actionEntry() of the current state: the entry callback of a leaf, *)
(* Chart::actionEntry() = reset() of a chart used as a state.             *)
ProcessEntry(c) ==
  /\ pc[c] = "begin" /\ processState[c] = "Entry"
  /\ \E ev \in Oracle :
       LET pt == pendingTransition[c]
           cs == IF pt # None THEN Dst(pt) ELSE currentState[c]
       IN IF cs \in Charts
          THEN /\ ev = NoEvent
               /\ currentState' = [currentState EXCEPT ![c] = cs, ![cs] = InitialOf(states_, cs)]
               /\ pendingTransition' = [pendingTransition EXCEPT ![c] = None, ![cs] = None]
               /\ processState' = [processState EXCEPT ![cs] = "Entry"]
               /\ is_active_' = [is_active_ EXCEPT ![currentState[cs]] = FALSE]
               /\ stepped' = [stepped EXCEPT ![cs] = FALSE]
               /\ UNCHANGED <<eventTriggered_, armed, fresh, spent, invoked>>
          ELSE /\ currentState' = [currentState EXCEPT ![c] = cs]
               /\ pendingTransition' = [pendingTransition EXCEPT ![c] = None]
               /\ eventTriggered_' = TriggerFlags(ev, eventTriggered_, is_active_)
               /\ invoked' = InvokedAfter(ev, invoked, is_active_, eventCallbacks, eventObservers)
               /\ armed' = ArmedAfter(ev, armed, is_active_)
               /\ fresh' = ArmedAfter(ev, fresh, is_active_)
               /\ spent' = SpentAfter(ev, spent)
               /\ UNCHANGED <<processState, is_active_, stepped>>
  /\ log' = Append(log, Rec("entry", IF pendingTransition[c] # None
                                     THEN Dst(pendingTransition[c]) ELSE currentState[c], ""))
  /\ pc' = [pc EXCEPT ![c] = "E_cb"]
  /\ UNCHANGED <<is_running_, process_thread_, exit_signal_, notifying, other>>
  /\ UNCHANGED <<root, states_, outgoingTransitions, stateChangeCallbacks, uv, user, nsteps, snap>>
  /\ UNCHANGED confVars

(* A loop over the state-change callbacks that stops after the first. *)
ChangeRecsFirstOnly(cbs, name) ==
  IF cbs = <<>> THEN <<>> ELSE <<Rec("change", cbs[1], name)>>

(* The state-change callbacks invoked with the name of the current state. *)
ChangeRecs(cbs, name) == [i \in DOMAIN cbs |-> Rec("change", cbs[i], name)]

(* An Entry phase without its break: it falls through into the Do phase  *)
(* of the state just entered.                                            *)
ProcessEntryFallsThrough(c) ==
  /\ pc[c] = "E_cb"
  /\ log' = (log \o ChangeRecs(stateChangeCallbacks[c], Name(currentState[c])))
               \o <<Rec("do", currentState[c], "")>>
  /\ processState' = [processState EXCEPT ![c] = "Do"]
  /\ is_active_' = [is_active_ EXCEPT ![currentState[c]] = TRUE]
  /\ pc' = IF currentState[c] \in Charts
           THEN [pc EXCEPT ![c] = "D_sub", ![currentState[c]] = "begin"]
           ELSE [pc EXCEPT ![c] = "D_eval"]
  /\ UNCHANGED <<is_running_, process_thread_, exit_signal_, notifying, other>>
  /\ UNCHANGED <<root, states_, outgoingTransitions, currentState, pendingTransition,
                 eventTriggered_, stateChangeCallbacks, uv, user, armed, fresh, spent, stepped,
                 nsteps, snap>>
  /\ UNCHANGED <<confVars, invoked>>

(* An Entry phase that forgets setActive(true). *)
ProcessEntryWithoutActivate(c) ==
  /\ pc[c] = "E_cb"
  /\ \E ev \in Oracle :
       /\ eventTriggered_' = TriggerFlags(ev, eventTriggered_, is_active_)
       /\ invoked' = InvokedAfter(ev, invoked, is_active_, eventCallbacks, eventObservers)
       /\ armed' = ArmedAfter(ev, armed, is_active_)
       /\ fresh' = FreshAfterEntry(ArmedAfter(ev, fresh, is_active_), currentState[c])
       /\ spent' = SpentAfter(ev, spent)
  /\ log' = log \o ChangeRecs(stateChangeCallbacks[c], Name(currentState[c]))
  /\ processState' = [processState EXCEPT ![c] = "Do"]
  /\ is_active_' = is_active_
  /\ Finish(c, "Do", currentState[c])
  /\ UNCHANGED <<is_running_, exit_signal_, notifying, other>>
  /\ UNCHANGED <<root, states_, outgoingTransitions, currentState, pendingTransition,
                 stateChangeCallbacks, uv>>
  /\ UNCHANGED confVars

(* Entry phase, chart.cpp lines 185-190: the state-change callbacks, then *)
(* processState = Do and setActive(true).                                 *)
ProcessEntryCallbacks(c) ==
  /\ pc[c] = "E_cb"
  /\ \E ev \in Oracle :
       /\ eventTriggered_' = TriggerFlags(ev, eventTriggered_, is_active_)
       /\ invoked' = InvokedAfter(ev, invoked, is_active_, eventCallbacks, eventObservers)
       /\ armed' = ArmedAfter(ev, armed, is_active_)
       /\ fresh' = FreshAfterEntry(ArmedAfter(ev, fresh, is_active_), currentState[c])
       /\ spent' = SpentAfter(ev, spent)
  /\ log' = log \o ChangeRecs(stateChangeCallbacks[c], Name(currentState[c]))
  /\ processState' = [processState EXCEPT ![c] = "Do"]
  /\ is_active_' = [is_active_ EXCEPT ![currentState[c]] = TRUE]
  /\ Finish(c, "Do", currentState[c])
  /\ UNCHANGED <<is_running_, exit_signal_, notifying, other>>
  /\ UNCHANGED <<root, states_, outgoingTransitions, currentState, pendingTransition,
                 stateChangeCallbacks, uv>>
  /\ UNCHANGED confVars

(* A Do phase that drives the charts nested in c whatever the current    *)
(* state is.                                                              *)
ProcessDoActionDrivesNested(c) ==
  /\ pc[c] = "begin" /\ processState[c] = "Do"
  /\ \E ev \in Oracle :
       IF currentState[c] \in Charts
       THEN /\ ev = NoEvent
            /\ pc' = [pc EXCEPT ![c] = "D_sub", ![currentState[c]] = "begin"]
            /\ UNCHANGED <<eventTriggered_, armed, fresh, spent, invoked>>
       ELSE /\ pc' = [d \in Charts |->
                       IF d = c THEN "D_eval"
                       ELSE IF Container(d) = c THEN "begin" ELSE pc[d]]
            /\ eventTriggered_' = TriggerFlags(ev, eventTriggered_, is_active_)
            /\ invoked' = InvokedAfter(ev, invoked, is_active_, eventCallbacks, eventObservers)
            /\ armed' = ArmedAfter(ev, armed, is_active_)
            /\ fresh' = ArmedAfter(ev, fresh, is_active_)
            /\ spent' = SpentAfter(ev, spent)
  /\ log' = Append(IF Container(c) = None THEN <<>> ELSE log, Rec("do", currentState[c], ""))
  /\ UNCHANGED <<is_running_, process_thread_, exit_signal_, notifying, other>>
  /\ UNCHANGED <<root, states_, outgoingTransitions, currentState, pendingTransition,
                 processState, is_active_, stateChangeCallbacks, uv, user, stepped,
                 nsteps, snap>>
  /\ UNCHANGED confVars

(* Do phase, chart.cpp line 192: actionDo() of the current state: the do  *)
(* callback of a leaf; Chart::actionDo() of a chart used as a state calls *)
(* its own process().  A Do phase of the root begins a new step.          *)
ProcessDoAction(c) ==
  /\ pc[c] = "begin" /\ processState[c] = "Do"
  /\ \E ev \in Oracle :
       IF currentState[c] \in Charts
       THEN /\ ev = NoEvent
            /\ pc' = [pc EXCEPT ![c] = "D_sub", ![currentState[c]] = "begin"]
            /\ UNCHANGED <<eventTriggered_, armed, fresh, spent, invoked>>
       ELSE /\ pc' = [pc EXCEPT ![c] = "D_eval"]
            /\ eventTriggered_' = TriggerFlags(ev, eventTriggered_, is_active_)
            /\ invoked' = InvokedAfter(ev, invoked, is_active_, eventCallbacks, eventObservers)
            /\ armed' = ArmedAfter(ev, armed, is_active_)
            /\ fresh' = ArmedAfter(ev, fresh, is_active_)
            /\ spent' = SpentAfter(ev, spent)
  /\ log' = Append(IF Container(c) = None THEN <<>> ELSE log, Rec("do", currentState[c], ""))
  /\ UNCHANGED <<is_running_, process_thread_, exit_signal_, notifying, other>>
  /\ UNCHANGED <<root, states_, outgoingTransitions, currentState, pendingTransition,
                 processState, is_active_, stateChangeCallbacks, uv, user, stepped,
                 nsteps, snap>>
  /\ UNCHANGED confVars

(* Do phase, chart.cpp lines 193-231: purgeExpiredTransitions(), then     *)
(* shouldPerform() on every outgoing transition; the last that passes     *)
(* becomes the pending transition and the phase becomes Exit.             *)
ProcessDoEval(c) ==
  /\ pc[c] = "D_eval"
  /\ LET cs == currentState[c]
         ts == PurgeExpired(outgoingTransitions[cs], states_)
         r == ExamineAll(ts, 1, eventTriggered_, uv, None)
         p == IF r.win # None THEN "Exit" ELSE "Do"
     IN /\ outgoingTransitions' = [outgoingTransitions EXCEPT ![cs] = ts]
        /\ eventTriggered_' = r.flags
        /\ pendingTransition' = IF r.win # None
                                THEN [pendingTransition EXCEPT ![c] = r.win]
                                ELSE pendingTransition
        /\ processState' = [processState EXCEPT ![c] = p]
        /\ armed' = [t \in Transitions |-> IF t \in SeqToSet(ts) THEN FALSE ELSE armed[t]]
        /\ fresh' = [t \in Transitions |-> IF t \in SeqToSet(ts) THEN FALSE ELSE fresh[t]]
        /\ spent' = [t \in Transitions |->
                       IF t \in SeqToSet(ts) /\ armed[t] /\ ~AllGuardsTrue(t, uv)
                       THEN TRUE ELSE spent[t]]
        /\ Finish(c, p, cs)
  /\ UNCHANGED <<is_running_, exit_signal_, notifying, other>>
  /\ UNCHANGED <<root, states_, currentState, is_active_, stateChangeCallbacks, uv, log>>
  /\ UNCHANGED <<confVars, invoked>>

(* Exit phase, chart.cpp line 234: actionExit() of the current state: the *)
(* exit callback of a leaf, nothing for a chart used as a state.          *)
ProcessExitAction(c) ==
  /\ pc[c] = "begin" /\ processState[c] = "Exit"
  /\ \E ev \in Oracle :
       /\ currentState[c] \in Charts => ev = NoEvent
       /\ eventTriggered_' = TriggerFlags(ev, eventTriggered_, is_active_)
       /\ invoked' = InvokedAfter(ev, invoked, is_active_, eventCallbacks, eventObservers)
       /\ armed' = ArmedAfter(ev, armed, is_active_)
       /\ fresh' = ArmedAfter(ev, fresh, is_active_)
       /\ spent' = SpentAfter(ev, spent)
  /\ log' = Append(log, Rec("exit", currentState[c], ""))
  /\ pc' = [pc EXCEPT ![c] = "X_act"]
  /\ UNCHANGED <<is_running_, process_thread_, exit_signal_, notifying, other>>
  /\ UNCHANGED <<root, states_, outgoingTransitions, currentState, pendingTransition,
                 processState, is_active_, stateChangeCallbacks, uv, user, stepped,
                 nsteps, snap>>
  /\ UNCHANGED confVars

(* An Exit phase without setActive(false). *)
ProcessExitKeepsActive(c) ==
  /\ pc[c] = "X_act"
  /\ \E ev \in Oracle :
       /\ eventTriggered_' = TriggerFlags(ev, eventTriggered_, is_active_)
       /\ invoked' = InvokedAfter(ev, invoked, is_active_, eventCallbacks, eventObservers)
       /\ armed' = ArmedAfter(ev, armed, is_active_)
       /\ fresh' = ArmedAfter(ev, fresh, is_active_)
       /\ spent' = SpentAfter(ev, spent)
  /\ log' = Append(log, Rec("action", pendingTransition[c],
                            IF is_active_[Src(pendingTransition[c])] THEN "active" ELSE "inactive"))
  /\ UNCHANGED is_active_
  /\ processState' = [processState EXCEPT ![c] = "Entry"]
  /\ Finish(c, "Entry", currentState[c])
  /\ UNCHANGED <<is_running_, exit_signal_, notifying, other>>
  /\ UNCHANGED <<root, states_, outgoingTransitions, currentState, pendingTransition,
                 stateChangeCallbacks, uv>>
  /\ UNCHANGED confVars

(* An Exit phase that calls setActive(false) before the action. *)
ProcessExitDeactivatesFirst(c) ==
  /\ pc[c] = "X_act"
  /\ LET act == [is_active_ EXCEPT ![currentState[c]] = FALSE]
     IN /\ \E ev \in Oracle :
             /\ eventTriggered_' = TriggerFlags(ev, eventTriggered_, act)
             /\ invoked' = InvokedAfter(ev, invoked, act, eventCallbacks, eventObservers)
             /\ armed' = ArmedAfter(ev, armed, act)
             /\ fresh' = ArmedAfter(ev, fresh, act)
             /\ spent' = SpentAfter(ev, spent)
        /\ log' = Append(log, Rec("action", pendingTransition[c],
                                  IF act[Src(pendingTransition[c])] THEN "active" ELSE "inactive"))
        /\ is_active_' = act
  /\ processState' = [processState EXCEPT ![c] = "Entry"]
  /\ Finish(c, "Entry", currentState[c])
  /\ UNCHANGED <<is_running_, exit_signal_, notifying, other>>
  /\ UNCHANGED <<root, states_, outgoingTransitions, currentState, pendingTransition,
                 stateChangeCallbacks, uv>>
  /\ UNCHANGED confVars

(* Exit phase, chart.cpp lines 235-237: the action of the pending         *)
(* transition, then setActive(false) and processState = Entry.            *)
ProcessExitTransition(c) ==
  /\ pc[c] = "X_act"
  /\ \E ev \in Oracle :
       /\ eventTriggered_' = TriggerFlags(ev, eventTriggered_, is_active_)
       /\ invoked' = InvokedAfter(ev, invoked, is_active_, eventCallbacks, eventObservers)
       /\ armed' = ArmedAfter(ev, armed, is_active_)
       /\ fresh' = ArmedAfter(ev, fresh, is_active_)
       /\ spent' = SpentAfter(ev, spent)
  /\ log' = Append(log, Rec("action", pendingTransition[c],
                            IF is_active_[Src(pendingTransition[c])] THEN "active" ELSE "inactive"))
  /\ is_active_' = [is_active_ EXCEPT ![currentState[c]] = FALSE]
  /\ processState' = [processState EXCEPT ![c] = "Entry"]
  /\ Finish(c, "Entry", currentState[c])
  /\ UNCHANGED <<is_running_, exit_signal_, notifying, other>>
  /\ UNCHANGED <<root, states_, outgoingTransitions, currentState, pendingTransition,
                 stateChangeCallbacks, uv>>
  /\ UNCHANGED confVars

(***************************************************************************)
(* The calls of the user thread.                                           *)
(***************************************************************************)

(* The event-subscribed transitions that are due when spinOnce() is       *)
(* called: the chart rests in Do in the source, the source is active, an  *)
(* event was triggered and every guard is true.                           *)
Due ==
  {t \in Transitions :
     /\ EventsOf(t) # {}
     /\ OutmostContainer(Src(t)) = root
     /\ currentState[ChartOf(t)] = Src(t) /\ processState[ChartOf(t)] = "Do"
     /\ \A s \in States : (s = Src(t) \/ s = ChartOf(t)) /\ Container(s) # None => is_active_[s]
     /\ armed[t]
     /\ AllGuardsTrue(t, uv)}

(* Chart::spinOnce(). *)
SpinOnce ==
  /\ user = Idle
  /\ IF Refuses(is_running_)
     THEN /\ user' = Returning("spinOnce")
          /\ UNCHANGED <<pc, log, snap>>
     ELSE /\ user' = [op |-> "spinOnce", arg |-> ""]
          /\ pc' = [pc EXCEPT ![root] = "begin"]
          /\ log' = <<>>
          /\ snap' = Due
  /\ UNCHANGED <<root, states_, outgoingTransitions, currentState, pendingTransition,
                 processState, is_active_, eventTriggered_, stateChangeCallbacks, uv,
                 armed, fresh, spent, stepped, nsteps>>
  /\ UNCHANGED <<is_running_, process_thread_, exit_signal_, notifying, other>>
  /\ UNCHANGED <<confVars, invoked>>

(* Chart::spinToState(name). *)
SpinToState(name) ==
  /\ user = Idle
  /\ IF Refuses(is_running_)
     THEN /\ user' = Returning("spinToState")
          /\ UNCHANGED <<pc, log>>
     ELSE /\ log' = <<>>
          /\ IF NotAtState(currentState[root], name)
             THEN /\ user' = [op |-> "spinToState", arg |-> name]
                  /\ pc' = [pc EXCEPT ![root] = "begin"]
             ELSE UNCHANGED <<user, pc>>
  /\ UNCHANGED <<root, states_, outgoingTransitions, currentState, pendingTransition,
                 processState, is_active_, eventTriggered_, stateChangeCallbacks, uv,
                 armed, fresh, spent, stepped, nsteps, snap>>
  /\ UNCHANGED <<is_running_, process_thread_, exit_signal_, notifying, other>>
  /\ UNCHANGED <<confVars, invoked>>

(* A reset() that also resets the charts nested in the root. *)
ResetNested ==
  /\ user = Idle /\ ~is_running_
  /\ user' = Returning("reset")
  /\ is_active_' = [s \in States |->
                      IF s = currentState[root]
                         \/ \E c \in Charts : Container(c) = root /\ s = currentState[c]
                      THEN FALSE ELSE is_active_[s]]
  /\ currentState' = [c \in Charts |->
                        IF c = root \/ Container(c) = root
                        THEN InitialOf(states_, c) ELSE currentState[c]]
  /\ processState' = [c \in Charts |->
                        IF c = root \/ Container(c) = root THEN "Entry" ELSE processState[c]]
  /\ pendingTransition' = [c \in Charts |->
                        IF c = root \/ Container(c) = root THEN None ELSE pendingTransition[c]]
  /\ stepped' = [stepped EXCEPT ![root] = FALSE]
  /\ nsteps' = 0
  /\ log' = <<>>
  /\ UNCHANGED <<root, states_, outgoingTransitions, eventTriggered_, stateChangeCallbacks,
                 uv, pc, armed, fresh, spent, snap>>
  /\ UNCHANGED <<is_running_, process_thread_, exit_signal_, notifying, other>>
  /\ UNCHANGED <<confVars, invoked>>

(* A reset() that leaves the current state marked active. *)
ResetKeepsActive ==
  /\ user = Idle /\ ~is_running_
  /\ user' = Returning("reset")
  /\ currentState' = [currentState EXCEPT ![root] = InitialOf(states_, root)]
  /\ processState' = [processState EXCEPT ![root] = "Entry"]
  /\ pendingTransition' = [pendingTransition EXCEPT ![root] = None]
  /\ stepped' = [stepped EXCEPT ![root] = FALSE]
  /\ nsteps' = 0
  /\ log' = <<>>
  /\ UNCHANGED <<root, states_, outgoingTransitions, eventTriggered_, stateChangeCallbacks,
                 uv, pc, armed, fresh, spent, snap, is_active_>>
  /\ UNCHANGED <<is_running_, process_thread_, exit_signal_, notifying, other>>
  /\ UNCHANGED <<confVars, invoked>>

(* Chart::reset() of the root when it is not running: stop() does nothing. *)
Reset ==
  /\ user = Idle /\ ~is_running_
  /\ user' = Returning("reset")
  /\ is_active_' = [is_active_ EXCEPT ![currentState[root]] = FALSE]
  /\ currentState' = [currentState EXCEPT ![root] = InitialOf(states_, root)]
  /\ processState' = [processState EXCEPT ![root] = "Entry"]
  /\ pendingTransition' = [pendingTransition EXCEPT ![root] = None]
  /\ stepped' = [stepped EXCEPT ![root] = FALSE]
  /\ nsteps' = 0
  /\ log' = <<>>
  /\ UNCHANGED <<root, states_, outgoingTransitions, eventTriggered_, stateChangeCallbacks,
                 uv, pc, armed, fresh, spent, snap>>
  /\ UNCHANGED <<is_running_, process_thread_, exit_signal_, notifying, other>>
  /\ UNCHANGED <<confVars, invoked>>

(* The user's call returns. *)
Return ==
  /\ user.op = "returning"
  /\ user' = Idle
  /\ UNCHANGED <<root, states_, outgoingTransitions, currentState, pendingTransition,
                 processState, is_active_, eventTriggered_, stateChangeCallbacks, uv,
                 pc, log, armed, fresh, spent, stepped, nsteps, snap, is_running_,
                 process_thread_, exit_signal_, notifying, other>>
  /\ UNCHANGED <<confVars, invoked>>

(* Event::trigger() called by the user between two calls. *)
Trigger(e) ==
  /\ user = Idle /\ ~is_running_
  /\ eventTriggered_' = TriggerFlags(e, eventTriggered_, is_active_)
  /\ invoked' = InvokedAfter(e, invoked, is_active_, eventCallbacks, eventObservers)
  /\ armed' = ArmedAfter(e, armed, is_active_)
  /\ fresh' = ArmedAfter(e, fresh, is_active_)
  /\ spent' = SpentAfter(e, spent)
  /\ UNCHANGED <<is_running_, process_thread_, exit_signal_, notifying, other>>
  /\ UNCHANGED <<root, states_, outgoingTransitions, currentState, pendingTransition,
                 processState, is_active_, stateChangeCallbacks, uv, user, pc, log,
                 stepped, nsteps, snap>>
  /\ UNCHANGED confVars

(* The user changes a boolean that guard predicates read. *)
SetGuard(v) ==
  /\ user = Idle
  /\ uv' = [uv EXCEPT ![v] = ~uv[v]]
  /\ UNCHANGED <<is_running_, process_thread_, exit_signal_, notifying, other>>
  /\ UNCHANGED <<root, states_, outgoingTransitions, currentState, pendingTransition,
                 processState, is_active_, eventTriggered_, stateChangeCallbacks, user,
                 pc, log, armed, fresh, spent, stepped, nsteps, snap>>
  /\ UNCHANGED <<confVars, invoked>>

(* Chart::createStateChangeCallback() on chart "A". *)
CreateStateChangeCallback(k) ==
  /\ user = Idle /\ ~is_running_ /\ root = "A"
  /\ k \notin SeqToSet(stateChangeCallbacks["A"])
  /\ stateChangeCallbacks' = [stateChangeCallbacks EXCEPT !["A"] = Append(@, k)]
  /\ log' = <<>>
  /\ UNCHANGED <<is_running_, process_thread_, exit_signal_, notifying, other>>
  /\ UNCHANGED <<root, states_, outgoingTransitions, currentState, pendingTransition,
                 processState, is_active_, eventTriggered_, uv, user, pc, armed, fresh, spent,
                 stepped, nsteps, snap>>
  /\ UNCHANGED <<confVars, invoked>>

(* Chart::removeStateChangeCallback() on chart "A". *)
RemoveStateChangeCallback(k) ==
  /\ user = Idle /\ ~is_running_ /\ root = "A"
  /\ stateChangeCallbacks' =
       [stateChangeCallbacks EXCEPT !["A"] = SelectSeq(@, LAMBDA h : h # k)]
  /\ log' = <<>>
  /\ UNCHANGED <<is_running_, process_thread_, exit_signal_, notifying, other>>
  /\ UNCHANGED <<root, states_, outgoingTransitions, currentState, pendingTransition,
                 processState, is_active_, eventTriggered_, uv, user, pc, armed, fresh, spent,
                 stepped, nsteps, snap>>
  /\ UNCHANGED <<confVars, invoked>>

Next ==
  \/ \E c \in Charts : ProcessEntry(c)
  \/ \E c \in Charts : ProcessEntryCallbacks(c)
  \/ \E c \in Charts : ProcessDoAction(c)
  \/ \E c \in Charts : ProcessDoEval(c)
  \/ \E c \in Charts : ProcessExitAction(c)
  \/ \E c \in Charts : ProcessExitTransition(c)
  \/ SpinOnce
  \/ \E n \in {"initial", "s1", "final"} : SpinToState(n)
  \/ Reset
  \/ Return
  \/ \E e \in Events : Trigger(e)
  \/ \E v \in UserVars : SetGuard(v)
  \/ \E k \in {"k1", "k2"} : CreateStateChangeCallback(k)
  \/ \E k \in {"k1", "k2"} : RemoveStateChangeCallback(k)

Spec == Init /\ [][Next]_vars

(***************************************************************************)
(* The asynchronous run: Chart::spinAsync, Chart::stop, Chart::reset of a  *)
(* running chart and Event::trigger from the user's thread while the       *)
(* chart is running.  The phases of process() are the actions above, now   *)
(* executed by the thread.                                                 *)
(***************************************************************************)

(* std::thread::joinable() of Chart::process_thread_. *)
Joinable(th) == th # "none"

(* A spinAsync() that does not look at the container. *)
SpinAsyncRefusesNever(c) == FALSE

(* The early return of Chart::spinAsync(): the chart has a container. *)
SpinAsyncRefuses(c) == Container(c) # None

(* process_thread_ = std::thread(...) of Chart::spinAsync(): the thread   *)
(* starts with a call of process(); the assignment to a std::thread that  *)
(* is still joinable calls std::terminate().                              *)
StartThread ==
  /\ process_thread_' = IF Joinable(process_thread_) THEN "terminated" ELSE "running"
  /\ pc' = IF Joinable(process_thread_) THEN [c \in Charts |-> "idle"]
           ELSE [pc EXCEPT ![root] = "begin"]

(* Chart::spinAsync() called by the user on chart c. *)
SpinAsync(c) ==
  /\ user = Idle
  /\ IF SpinAsyncRefuses(c)
     THEN /\ user' = Returning("spinAsync")
          /\ UNCHANGED <<is_running_, exit_signal_, process_thread_, pc, other>>
     ELSE /\ is_running_' = TRUE
          /\ IF ~is_running_
             THEN /\ exit_signal_' = FALSE
                  /\ StartThread
                  /\ user' = IF Joinable(process_thread_) THEN Dead ELSE Returning("spinAsync")
                  /\ other' = IF Joinable(process_thread_) THEN OtherDead ELSE other
             ELSE /\ user' = Returning("spinAsync")
                  /\ UNCHANGED <<exit_signal_, process_thread_, pc, other>>
  /\ UNCHANGED <<root, states_, outgoingTransitions, currentState, pendingTransition,
                 processState, is_active_, eventTriggered_, stateChangeCallbacks, uv,
                 log, armed, fresh, spent, stepped, nsteps, snap, notifying>>
  /\ UNCHANGED <<confVars, invoked>>

(* Chart::spin() called by the user. *)
Spin ==
  /\ user = Idle
  /\ IF Refuses(is_running_)
     THEN /\ user' = Returning("spin")
          /\ UNCHANGED <<pc, log>>
     ELSE /\ user' = [op |-> "spin", arg |-> ""]
          /\ pc' = [pc EXCEPT ![root] = "begin"]
          /\ log' = <<>>
  /\ UNCHANGED <<root, states_, outgoingTransitions, currentState, pendingTransition,
                 processState, is_active_, eventTriggered_, stateChangeCallbacks, uv,
                 armed, fresh, spent, stepped, nsteps, snap, is_running_, process_thread_,
                 exit_signal_, notifying, other>>
  /\ UNCHANGED <<confVars, invoked>>

(* Chart::stop() on the root, up to the join. *)
Stop ==
  /\ user = Idle
  /\ is_running_' = FALSE
  /\ IF is_running_
     THEN /\ exit_signal_' = TRUE
          /\ user' = [op |-> "stop", arg |-> ""]
     ELSE /\ user' = Returning("stop")
          /\ UNCHANGED exit_signal_
  /\ UNCHANGED <<root, states_, outgoingTransitions, currentState, pendingTransition,
                 processState, is_active_, eventTriggered_, stateChangeCallbacks, uv,
                 pc, log, armed, fresh, spent, stepped, nsteps, snap, process_thread_,
                 notifying, other>>
  /\ UNCHANGED <<confVars, invoked>>

(* process_thread_.join() of Chart::stop() returns. *)
StopJoin ==
  /\ user.op = "stop" /\ process_thread_ = "finished"
  /\ process_thread_' = "none"
  /\ user' = Returning("stop")
  /\ UNCHANGED <<root, states_, outgoingTransitions, currentState, pendingTransition,
                 processState, is_active_, eventTriggered_, stateChangeCallbacks, uv,
                 pc, log, armed, fresh, spent, stepped, nsteps, snap, is_running_,
                 exit_signal_, notifying, other>>
  /\ UNCHANGED <<confVars, invoked>>

(* Chart::reset() of the root while it is running: its stop(), up to the join. *)
ResetStop ==
  /\ user = Idle /\ is_running_
  /\ is_running_' = FALSE
  /\ exit_signal_' = TRUE
  /\ user' = [op |-> "reset", arg |-> ""]
  /\ UNCHANGED <<root, states_, outgoingTransitions, currentState, pendingTransition,
                 processState, is_active_, eventTriggered_, stateChangeCallbacks, uv,
                 pc, log, armed, fresh, spent, stepped, nsteps, snap, process_thread_,
                 notifying, other>>
  /\ UNCHANGED <<confVars, invoked>>

(* The join of that stop() returns and Chart::reset() goes on. *)
ResetJoin ==
  /\ user.op = "reset" /\ process_thread_ = "finished"
  /\ process_thread_' = "none"
  /\ user' = Returning("reset")
  /\ is_active_' = [is_active_ EXCEPT ![currentState[root]] = FALSE]
  /\ currentState' = [currentState EXCEPT ![root] = InitialOf(states_, root)]
  /\ processState' = [processState EXCEPT ![root] = "Entry"]
  /\ pendingTransition' = [pendingTransition EXCEPT ![root] = None]
  /\ stepped' = [stepped EXCEPT ![root] = FALSE]
  /\ nsteps' = 0
  /\ log' = <<>>
  /\ UNCHANGED <<root, states_, outgoingTransitions, eventTriggered_,
                 stateChangeCallbacks, uv, pc, armed, fresh, spent, snap, is_running_,
                 exit_signal_, notifying, other>>
  /\ UNCHANGED <<confVars, invoked>>

(* Event::trigger() called by the user while the root is running: the     *)
(* loop over the observers starts.                                        *)
TriggerRunning(e) ==
  /\ user = Idle /\ is_running_
  /\ user' = [op |-> "trigger", arg |-> e]
  /\ notifying' = EventObservers(e)
  /\ spent' = SpentAfter(e, spent)
  /\ UNCHANGED <<root, states_, outgoingTransitions, currentState, pendingTransition,
                 processState, is_active_, eventTriggered_, stateChangeCallbacks, uv,
                 pc, log, armed, fresh, stepped, nsteps, snap, is_running_, process_thread_,
                 exit_signal_, other>>
  /\ UNCHANGED <<confVars, invoked>>

(* A notify() on the user's thread that stores the flag without pausing   *)
(* the chart.                                                             *)
NotifyStepWithoutPause ==
  /\ user.op = "trigger"
  /\ IF notifying = <<>>
     THEN /\ user' = Idle
          /\ UNCHANGED <<notifying, eventTriggered_, armed, fresh>>
     ELSE /\ eventTriggered_' =
               [eventTriggered_ EXCEPT ![Head(notifying)] = Notify(Head(notifying), @, is_active_)]
          /\ armed' = [armed EXCEPT ![Head(notifying)] =
                         @ \/ IsActive(Src(Head(notifying)), is_active_)]
          /\ fresh' = [fresh EXCEPT ![Head(notifying)] =
                         @ \/ IsActive(Src(Head(notifying)), is_active_)]
          /\ notifying' = Tail(notifying)
          /\ UNCHANGED user
  /\ UNCHANGED <<root, states_, outgoingTransitions, currentState, pendingTransition,
                 processState, is_active_, stateChangeCallbacks, uv, pc, log, spent,
                 stepped, nsteps, snap, is_running_, process_thread_, exit_signal_,
                 other>>
  /\ UNCHANGED <<confVars, invoked>>

(* Transition::notify() of the next observer, called on the user's        *)
(* thread, up to the join of the stop() that pauses the chart; after the  *)
(* last observer Event::trigger() returns.                                *)
NotifyStep ==
  /\ user.op = "trigger"
  /\ IF notifying = <<>>
     THEN /\ user' = Idle
          /\ UNCHANGED <<notifying, is_running_, exit_signal_, eventTriggered_, armed, fresh>>
     ELSE IF ~IsActive(Src(Head(notifying)), is_active_)
     THEN /\ notifying' = Tail(notifying)
          /\ UNCHANGED <<user, is_running_, exit_signal_, eventTriggered_, armed, fresh>>
     ELSE IF is_running_
     THEN /\ is_running_' = FALSE
          /\ exit_signal_' = TRUE
          /\ user' = [user EXCEPT !.op = "notify"]
          /\ UNCHANGED <<notifying, eventTriggered_, armed, fresh>>
     ELSE /\ eventTriggered_' = [eventTriggered_ EXCEPT ![Head(notifying)] = TRUE]
          /\ armed' = [armed EXCEPT ![Head(notifying)] = TRUE]
          /\ fresh' = [fresh EXCEPT ![Head(notifying)] = TRUE]
          /\ notifying' = Tail(notifying)
          /\ UNCHANGED <<user, is_running_, exit_signal_>>
  /\ UNCHANGED <<root, states_, outgoingTransitions, currentState, pendingTransition,
                 processState, is_active_, stateChangeCallbacks, uv, pc, log, spent,
                 stepped, nsteps, snap, process_thread_, other>>
  /\ UNCHANGED <<confVars, invoked>>

(* The join of that stop() returns. *)
NotifyJoin ==
  /\ user.op = "notify" /\ process_thread_ = "finished"
  /\ process_thread_' = "none"
  /\ user' = [user EXCEPT !.op = "resume"]
  /\ UNCHANGED <<root, states_, outgoingTransitions, currentState, pendingTransition,
                 processState, is_active_, eventTriggered_, stateChangeCallbacks, uv,
                 pc, log, armed, fresh, spent, stepped, nsteps, snap, is_running_,
                 exit_signal_, notifying, other>>
  /\ UNCHANGED <<confVars, invoked>>

(* A notify() that restarts the chart without storing the flag. *)
NotifyResumeWithoutStore ==
  /\ user.op = "resume"
  /\ notifying' = Tail(notifying)
  /\ is_running_' = TRUE
  /\ IF ~is_running_
     THEN /\ exit_signal_' = FALSE
          /\ StartThread
          /\ user' = IF Joinable(process_thread_) THEN Dead ELSE [user EXCEPT !.op = "trigger"]
          /\ other' = IF Joinable(process_thread_) THEN OtherDead ELSE other
     ELSE /\ user' = [user EXCEPT !.op = "trigger"]
          /\ UNCHANGED <<exit_signal_, process_thread_, pc, other>>
  /\ UNCHANGED <<root, states_, outgoingTransitions, currentState, pendingTransition,
                 processState, is_active_, eventTriggered_, armed, fresh, stateChangeCallbacks,
                 uv, log, spent, stepped, nsteps, snap>>
  /\ UNCHANGED <<confVars, invoked>>

(* Transition::notify() after the pause: it looks at the source again,    *)
(* stores the flag if it is active, and restarts the chart.               *)
NotifyResume ==
  /\ user.op = "resume"
  /\ LET t == Head(notifying)
     IN /\ eventTriggered_' = [eventTriggered_ EXCEPT ![t] = Notify(t, @, is_active_)]
        /\ armed' = [armed EXCEPT ![t] = @ \/ IsActive(Src(t), is_active_)]
        /\ fresh' = [fresh EXCEPT ![t] = @ \/ IsActive(Src(t), is_active_)]
  /\ notifying' = Tail(notifying)
  /\ is_running_' = TRUE
  /\ IF ~is_running_
     THEN /\ exit_signal_' = FALSE
          /\ StartThread
          /\ user' = IF Joinable(process_thread_) THEN Dead ELSE [user EXCEPT !.op = "trigger"]
          /\ other' = IF Joinable(process_thread_) THEN OtherDead ELSE other
     ELSE /\ user' = [user EXCEPT !.op = "trigger"]
          /\ UNCHANGED <<exit_signal_, process_thread_, pc, other>>
  /\ UNCHANGED <<root, states_, outgoingTransitions, currentState, pendingTransition,
                 processState, is_active_, stateChangeCallbacks, uv, log, spent,
                 stepped, nsteps, snap>>
  /\ UNCHANGED <<confVars, invoked>>

NextAsync ==
  \/ Next
  \/ \E c \in {root, "S"} : SpinAsync(c)
  \/ Spin
  \/ Stop
  \/ StopJoin
  \/ ResetStop
  \/ ResetJoin
  \/ \E e \in Events : TriggerRunning(e)
  \/ NotifyStep
  \/ NotifyJoin
  \/ NotifyResume

SpecAsync == Init /\ [][NextAsync]_vars

(***************************************************************************)
(* A second foreign thread that calls Event::trigger() while the user's    *)
(* thread calls spinAsync() and stop().  Its Transition::notify() is split *)
(* where the other threads can run in between: after the reads of          *)
(* isActive() and isRunning(), after the exchange of stop(), at the join.  *)
(***************************************************************************)

(* Event::trigger() called by the second thread: its loop starts. *)
OtherTrigger(e) ==
  /\ other = OtherIdle
  /\ other' = [op |-> "trigger", arg |-> e, q |-> EventObservers(e)]
  /\ spent' = SpentAfter(e, spent)
  /\ UNCHANGED <<root, states_, outgoingTransitions, currentState, pendingTransition,
                 processState, is_active_, eventTriggered_, stateChangeCallbacks, uv,
                 user, pc, log, armed, fresh, stepped, nsteps, snap, is_running_,
                 process_thread_, exit_signal_, notifying>>
  /\ UNCHANGED <<confVars, invoked>>

(* Transition::notify() of the next observer on the second thread, up to  *)
(* the decision to pause (transition.cpp lines 69-87); after the last     *)
(* observer Event::trigger() returns.                                     *)
OtherNotify ==
  /\ other.op = "trigger"
  /\ IF other.q = <<>>
     THEN /\ other' = OtherIdle
          /\ UNCHANGED <<eventTriggered_, armed, fresh>>
     ELSE IF ~IsActive(Src(Head(other.q)), is_active_)
     THEN /\ other' = [other EXCEPT !.q = Tail(@)]
          /\ UNCHANGED <<eventTriggered_, armed, fresh>>
     ELSE IF is_running_
     THEN /\ other' = [other EXCEPT !.op = "stop"]
          /\ UNCHANGED <<eventTriggered_, armed, fresh>>
     ELSE /\ eventTriggered_' = [eventTriggered_ EXCEPT ![Head(other.q)] = TRUE]
          /\ armed' = [armed EXCEPT ![Head(other.q)] = TRUE]
          /\ fresh' = [fresh EXCEPT ![Head(other.q)] = TRUE]
          /\ other' = [other EXCEPT !.q = Tail(@)]
  /\ UNCHANGED <<root, states_, outgoingTransitions, currentState, pendingTransition,
                 processState, is_active_, stateChangeCallbacks, uv, user, pc, log,
                 spent, stepped, nsteps, snap, is_running_, process_thread_,
                 exit_signal_, notifying>>
  /\ UNCHANGED <<confVars, invoked>>

(* mainChart->stop() of that notify(), up to the join. *)
OtherStop ==
  /\ other.op = "stop"
  /\ is_running_' = FALSE
  /\ IF is_running_
     THEN /\ exit_signal_' = TRUE
          /\ other' = [other EXCEPT !.op = "join"]
     ELSE /\ other' = [other EXCEPT !.op = "resume"]
          /\ UNCHANGED exit_signal_
  /\ UNCHANGED <<root, states_, outgoingTransitions, currentState, pendingTransition,
                 processState, is_active_, eventTriggered_, stateChangeCallbacks, uv,
                 user, pc, log, armed, fresh, spent, stepped, nsteps, snap, process_thread_,
                 notifying>>
  /\ UNCHANGED <<confVars, invoked>>

(* The join of that stop() returns. *)
OtherJoin ==
  /\ other.op = "join" /\ process_thread_ = "finished"
  /\ process_thread_' = "none"
  /\ other' = [other EXCEPT !.op = "resume"]
  /\ UNCHANGED <<root, states_, outgoingTransitions, currentState, pendingTransition,
                 processState, is_active_, eventTriggered_, stateChangeCallbacks, uv,
                 user, pc, log, armed, fresh, spent, stepped, nsteps, snap, is_running_,
                 exit_signal_, notifying>>
  /\ UNCHANGED <<confVars, invoked>>

(* That notify() after its stop(): it looks at the source again, stores   *)
(* the flag if it is active, and calls mainChart->spinAsync().            *)
OtherResume ==
  /\ other.op = "resume"
  /\ LET t == Head(other.q)
     IN /\ eventTriggered_' = [eventTriggered_ EXCEPT ![t] = Notify(t, @, is_active_)]
        /\ armed' = [armed EXCEPT ![t] = @ \/ IsActive(Src(t), is_active_)]
        /\ fresh' = [fresh EXCEPT ![t] = @ \/ IsActive(Src(t), is_active_)]
  /\ is_running_' = TRUE
  /\ IF ~is_running_
     THEN /\ exit_signal_' = FALSE
          /\ StartThread
          /\ other' = IF Joinable(process_thread_) THEN OtherDead
                      ELSE [other EXCEPT !.op = "trigger", !.q = Tail(@)]
          /\ user' = IF Joinable(process_thread_) THEN Dead ELSE user
     ELSE /\ other' = [other EXCEPT !.op = "trigger", !.q = Tail(@)]
          /\ UNCHANGED <<exit_signal_, process_thread_, pc, user>>
  /\ UNCHANGED <<root, states_, outgoingTransitions, currentState, pendingTransition,
                 processState, is_active_, stateChangeCallbacks, uv, log, spent,
                 stepped, nsteps, snap, notifying>>
  /\ UNCHANGED <<confVars, invoked>>

NextThreads ==
  \/ \E c \in Charts : ProcessEntry(c)
  \/ \E c \in Charts : ProcessEntryCallbacks(c)
  \/ \E c \in Charts : ProcessDoAction(c)
  \/ \E c \in Charts : ProcessDoEval(c)
  \/ \E c \in Charts : ProcessExitAction(c)
  \/ \E c \in Charts : ProcessExitTransition(c)
  \/ SpinAsync(root)
  \/ Stop
  \/ StopJoin
  \/ Return
  \/ \E e \in Events : OtherTrigger(e)
  \/ OtherNotify
  \/ OtherStop
  \/ OtherJoin
  \/ OtherResume

SpecThreads == Init /\ [][NextThreads]_vars

(***************************************************************************)
(* An asynchronous run that is started and then left running: the guards   *)
(* are set before spinAsync(), and the user's thread only triggers events. *)
(* The scheduler is fair to the thread of the chart and to the thread that *)
(* is inside Event::trigger().                                             *)
(***************************************************************************)

(* The user sets a guard's boolean before the chart is started. *)
SetGuardStopped(v) == ~is_running_ /\ SetGuard(v)

(* A step of the thread started by spinAsync(). *)
ThreadNext ==
  \E c \in Charts :
    \/ ProcessEntry(c) \/ ProcessEntryCallbacks(c) \/ ProcessDoAction(c)
    \/ ProcessDoEval(c) \/ ProcessExitAction(c) \/ ProcessExitTransition(c)

(* A step of the user's thread inside Event::trigger(). *)
NotifyNext == NotifyStep \/ NotifyJoin \/ NotifyResume

NextRun ==
  \/ \E c \in Charts : ProcessEntry(c)
  \/ \E c \in Charts : ProcessEntryCallbacks(c)
  \/ \E c \in Charts : ProcessDoAction(c)
  \/ \E c \in Charts : ProcessDoEval(c)
  \/ \E c \in Charts : ProcessExitAction(c)
  \/ \E c \in Charts : ProcessExitTransition(c)
  \/ \E v \in UserVars : SetGuardStopped(v)
  \/ SpinAsync(root)
  \/ Return
  \/ \E e \in Events : TriggerRunning(e)
  \/ NotifyStep
  \/ NotifyJoin
  \/ NotifyResume

SpecRun == Init /\ [][NextRun]_vars /\ WF_vars(ThreadNext) /\ WF_vars(NotifyNext)

(***************************************************************************)
(* The start of the thread.  Chart::spinAsync() constructs the std::thread *)
(* and then move-assigns it to process_thread_; the new thread may call    *)
(* process() before the assignment is done, and Transition::notify() on    *)
(* that thread reads process_thread_.get_id() without synchronisation.     *)
(***************************************************************************)

(* What process_thread_.get_id() can return to the new thread: its own id  *)
(* once the assignment is done, that or the id of no thread while the      *)
(* assignment is under way.                                                *)
GetId(th) ==
  IF th = "running" THEN {"thread"}
  ELSE IF th = "starting" THEN {"thread", "nobody"}
  ELSE {"nobody"}

(* needToPause of Transition::notify(). *)
NeedToPause(running, caller, id) == running /\ caller # id

(* Chart::spinAsync() of the root up to the construction of the thread. *)
SpinAsyncStart ==
  /\ user = Idle
  /\ ~is_running_ /\ ~Joinable(process_thread_)
  /\ is_running_' = TRUE
  /\ exit_signal_' = FALSE
  /\ process_thread_' = "starting"
  /\ pc' = [pc EXCEPT ![root] = "begin"]
  /\ user' = [op |-> "spinAsync", arg |-> ""]
  /\ UNCHANGED <<root, states_, outgoingTransitions, currentState, pendingTransition,
                 processState, is_active_, eventTriggered_, stateChangeCallbacks, uv,
                 log, armed, fresh, spent, stepped, nsteps, snap, notifying, other>>
  /\ UNCHANGED <<confVars, invoked>>

(* The assignment to process_thread_ is done and spinAsync() returns. *)
SpinAsyncAssigned ==
  /\ user.op = "spinAsync" /\ process_thread_ = "starting"
  /\ process_thread_' = "running"
  /\ user' = Returning("spinAsync")
  /\ UNCHANGED <<root, states_, outgoingTransitions, currentState, pendingTransition,
                 processState, is_active_, eventTriggered_, stateChangeCallbacks, uv,
                 pc, log, armed, fresh, spent, stepped, nsteps, snap, is_running_,
                 exit_signal_, notifying, other>>
  /\ UNCHANGED <<confVars, invoked>>

(* The do callback of the root's current state, run by the new thread,     *)
(* triggers e and Transition::notify() of an observer with an active       *)
(* source finds needToPause true: its stop() clears is_running_, sets the  *)
(* exit signal and calls join() on the thread it runs on, which throws out *)
(* of the thread function: std::terminate().                               *)
SelfNotify(e) ==
  /\ pc[root] = "begin" /\ processState[root] = "Do"
  /\ currentState[root] \in Leaves
  /\ \E t \in SeqToSet(EventObservers(e)) : IsActive(Src(t), is_active_)
  /\ \E id \in GetId(process_thread_) : NeedToPause(is_running_, "thread", id)
  /\ is_running_' = FALSE
  /\ exit_signal_' = TRUE
  /\ process_thread_' = "terminated"
  /\ pc' = [c \in Charts |-> "idle"]
  /\ user' = Dead
  /\ other' = OtherDead
  /\ UNCHANGED <<root, states_, outgoingTransitions, currentState, pendingTransition,
                 processState, is_active_, eventTriggered_, stateChangeCallbacks, uv,
                 log, armed, fresh, spent, stepped, nsteps, snap, notifying>>
  /\ UNCHANGED <<confVars, invoked>>

(* The thread has its id: what it does before the assignment, short of a   *)
(* notify(), is the same after it.                                         *)
Assigned == process_thread_ # "starting"

(* A program that steps its chart with spinOnce(), then starts and stops   *)
(* it, with callbacks that trigger events.                                 *)
NextSelf ==
  \/ \E c \in Charts : Assigned /\ ProcessEntry(c)
  \/ \E c \in Charts : Assigned /\ ProcessEntryCallbacks(c)
  \/ \E c \in Charts : Assigned /\ ProcessDoAction(c)
  \/ \E c \in Charts : Assigned /\ ProcessDoEval(c)
  \/ \E c \in Charts : Assigned /\ ProcessExitAction(c)
  \/ \E c \in Charts : Assigned /\ ProcessExitTransition(c)
  \/ SpinOnce
  \/ Return
  \/ SetGuard("x")
  \/ SpinAsyncStart
  \/ SpinAsyncAssigned
  \/ \E e \in Events : SelfNotify(e)
  \/ Stop
  \/ StopJoin

SpecSelf == Init /\ [][NextSelf]_vars

(***************************************************************************)
(* Event callbacks of states: createEventCallback(), removeEventCallback() *)
(* and the callbacks Event::trigger() invokes.                             *)
(***************************************************************************)

(* Everything but the configuration: what a run of a chart works on. *)
execVars == <<root, currentState, pendingTransition, processState, is_active_,
              eventTriggered_, stateChangeCallbacks, uv, user, pc, log, armed, fresh, spent,
              stepped, nsteps, snap, is_running_, process_thread_, exit_signal_,
              notifying, other>>

(* An addObserver() that does not look for the observer first. *)
AddObserverAgain(obs, o) == Append(obs, o)

(* Event::addObserver(): push_back unless the observer is in the vector. *)
AddObserver(obs, o) == IF o \in SeqToSet(obs) THEN obs ELSE Append(obs, o)

(* Event::removeObserver(): erase every entry that locks to the observer. *)
RemoveObserver(obs, o) == SelectSeq(obs, LAMBDA x : x # o)


(* AbstractState::createEventCallback(event, callback) on state s. *)
CreateEventCallback(s, e) ==
  /\ user = Idle /\ ~is_running_
  /\ eventObservers' = [eventObservers EXCEPT ![e] = AddObserver(@, s)]
  /\ eventCallbacks' = [eventCallbacks EXCEPT ![s] = @ \cup {e}]
  /\ ret' = Call("createEventCallback", Bool(e \notin eventCallbacks[s]))
  /\ removed' = NothingErased
  /\ UNCHANGED <<execVars, states_, outgoingTransitions, label, container, dst,
                 expired, events_, invoked>>

(* AbstractState::removeEventCallback(event) on state s. *)
RemoveEventCallback(s, e) ==
  /\ user = Idle /\ ~is_running_
  /\ eventObservers' = [eventObservers EXCEPT ![e] = RemoveObserver(@, s)]
  /\ eventCallbacks' = [eventCallbacks EXCEPT ![s] = @ \ {e}]
  /\ ret' = Call("removeEventCallback", Bool(e \in eventCallbacks[s]))
  /\ removed' = NothingErased
  /\ UNCHANGED <<execVars, states_, outgoingTransitions, label, container, dst,
                 expired, events_, invoked>>

(* The callbacks the program registers: on s1 of "M" and on a of the     *)
(* subchart "S".                                                          *)
CallbackPairs == {<<"M.s1", "e1">>, <<"S.a", "e1">>, <<"S.a", "e2">>}

(* A program that also registers and removes event callbacks of states   *)
(* between its calls of spinOnce() and Event::trigger(); of its two       *)
(* booleans it changes x only.                                            *)
NextEvents ==
  \/ \E c \in Charts : ProcessEntry(c)
  \/ \E c \in Charts : ProcessEntryCallbacks(c)
  \/ \E c \in Charts : ProcessDoAction(c)
  \/ \E c \in Charts : ProcessDoEval(c)
  \/ \E c \in Charts : ProcessExitAction(c)
  \/ \E c \in Charts : ProcessExitTransition(c)
  \/ SpinOnce
  \/ \E e \in Events : Trigger(e)
  \/ SetGuard("x")
  \/ \E sp \in CallbackPairs : root = "M" /\ CreateEventCallback(sp[1], sp[2])
  \/ \E sp \in CallbackPairs : root = "M" /\ RemoveEventCallback(sp[1], sp[2])

SpecEvents == Init /\ [][NextEvents]_vars

(***************************************************************************)
(* Building charts: createChart, createState, addSubchart, removeState,    *)
(* createTransition and purgeExpiredTransitions on charts that are not     *)
(* run.  Objects are named o1, o2, ... and transitions t1, t2, ... in the  *)
(* order of their creation.                                                *)
(***************************************************************************)

(* Bounds of the program that builds charts. *)
MaxCharts == 2
MaxObjects == 7
MaxTransitions == 2

(* The names the program passes to createChart and to createState. *)
ChartNames == {"", "c", "s1"}
StateNames == {"", "initial", "s1", "s2"}

Obj(n) == "o" \o ToString(n)
Tr(n) == "t" \o ToString(n)
NumObjects == Cardinality(DOMAIN label)
NumTransitions == Cardinality(DOMAIN dst)

(* The objects a call can be made on: those not destroyed. *)
Live == DOMAIN label \ expired
LiveCharts == DOMAIN states_ \ expired

(* Chart::getStateCount(). *)
StateCount(sts, c) == Cardinality(DOMAIN sts[c])

(* What no configuration call touches. *)
idleVars == <<root, eventTriggered_, stateChangeCallbacks, uv, user, pc, log, armed, fresh,
              spent, stepped, nsteps, snap, is_running_, process_thread_,
              exit_signal_, notifying, other, invoked>>

(* The fields of the charts and states. *)
objVars == <<states_, outgoingTransitions, currentState, pendingTransition,
             processState, is_active_, label, container, eventCallbacks>>

(* Nothing is built yet. *)
InitConfig ==
  /\ root = None
  /\ states_ = <<>>
  /\ outgoingTransitions = <<>>
  /\ currentState = <<>>
  /\ pendingTransition = <<>>
  /\ processState = <<>>
  /\ is_active_ = <<>>
  /\ eventTriggered_ = <<>>
  /\ stateChangeCallbacks = <<>>
  /\ uv = [v \in UserVars |-> FALSE]
  /\ user = Idle
  /\ pc = <<>>
  /\ log = <<>>
  /\ armed = <<>>
  /\ fresh = <<>>
  /\ spent = <<>>
  /\ stepped = <<>>
  /\ nsteps = 0
  /\ snap = {}
  /\ is_running_ = FALSE
  /\ process_thread_ = "none"
  /\ exit_signal_ = FALSE
  /\ notifying = <<>>
  /\ other = OtherIdle
  /\ label = <<>>
  /\ container = <<>>
  /\ dst = <<>>
  /\ expired = {}
  /\ events_ = <<>>
  /\ eventCallbacks = <<>>
  /\ eventObservers = [e \in Events |-> <<>>]
  /\ ret = Call("none", None)
  /\ removed = NothingErased
  /\ invoked = <<>>

(* Chart::createChart(n): throws on the empty name, else a new chart     *)
(* with its states "initial" and "final"; initial is the current state.  *)
CreateChart(n) ==
  /\ user = Idle
  /\ IF n = ""
     THEN /\ ret' = Call("createChart", "error")
          /\ UNCHANGED objVars
     ELSE /\ Cardinality(DOMAIN states_) < MaxCharts
          /\ NumObjects + 3 <= MaxObjects
          /\ LET k == Obj(NumObjects + 1)
                 i == Obj(NumObjects + 2)
                 f == Obj(NumObjects + 3)
             IN /\ label' = label @@ (k :> n) @@ (i :> "initial") @@ (f :> "final")
                /\ container' = container @@ (k :> None) @@ (i :> k) @@ (f :> k)
                /\ states_' = states_ @@ (k :> (("initial" :> i) @@ ("final" :> f)))
                /\ outgoingTransitions' = outgoingTransitions @@ [o \in {k, i, f} |-> <<>>]
                /\ eventCallbacks' = eventCallbacks @@ [o \in {k, i, f} |-> {}]
                /\ is_active_' = is_active_ @@ [o \in {k, i, f} |-> FALSE]
                /\ currentState' = currentState @@ (k :> i)
                /\ pendingTransition' = pendingTransition @@ (k :> None)
                /\ processState' = processState @@ (k :> "Entry")
                /\ ret' = Call("createChart", k)
  /\ UNCHANGED <<idleVars, dst, expired, events_, eventObservers>>
  /\ removed' = NothingErased

(* The return of Chart::createState(n) when n is in states_:             *)
(* std::dynamic_pointer_cast<State> of the entry, which is null when the *)
(* entry is a Chart.                                                      *)
FoundState(sts, c, n) == IF sts[c][n] \in DOMAIN sts THEN None ELSE sts[c][n]

(* A createState() that takes the empty name like any other. *)
CreateStateAnyName(c, n) ==
  /\ user = Idle
  /\ IF HasState(states_, c, n)
     THEN /\ ret' = Call("createState", FoundState(states_, c, n))
          /\ UNCHANGED objVars
     ELSE /\ NumObjects + 1 <= MaxObjects
          /\ LET o == Obj(NumObjects + 1)
             IN /\ label' = label @@ (o :> n)
                /\ container' = container @@ (o :> c)
                /\ states_' = [states_ EXCEPT ![c] = @ @@ (n :> o)]
                /\ outgoingTransitions' = outgoingTransitions @@ (o :> <<>>)
                /\ eventCallbacks' = eventCallbacks @@ (o :> {})
                /\ is_active_' = is_active_ @@ (o :> FALSE)
                /\ ret' = Call("createState", o)
          /\ UNCHANGED <<currentState, pendingTransition, processState>>
  /\ UNCHANGED <<idleVars, dst, expired, events_, eventObservers>>
  /\ removed' = NothingErased

(* Chart::createState(n) on chart c: throws on the empty name, returns   *)
(* the entry of a name already in states_, else inserts a new state.     *)
CreateState(c, n) ==
  /\ user = Idle
  /\ IF n = ""
     THEN /\ ret' = Call("createState", "error")
          /\ UNCHANGED objVars
     ELSE IF HasState(states_, c, n)
     THEN /\ ret' = Call("createState", FoundState(states_, c, n))
          /\ UNCHANGED objVars
     ELSE /\ NumObjects + 1 <= MaxObjects
          /\ LET o == Obj(NumObjects + 1)
             IN /\ label' = label @@ (o :> n)
                /\ container' = container @@ (o :> c)
                /\ states_' = [states_ EXCEPT ![c] = @ @@ (n :> o)]
                /\ outgoingTransitions' = outgoingTransitions @@ (o :> <<>>)
                /\ eventCallbacks' = eventCallbacks @@ (o :> {})
                /\ is_active_' = is_active_ @@ (o :> FALSE)
                /\ ret' = Call("createState", o)
          /\ UNCHANGED <<currentState, pendingTransition, processState>>
  /\ UNCHANGED <<idleVars, dst, expired, events_, eventObservers>>
  /\ removed' = NothingErased

(* Chart::addSubchart(s) on chart c: the container of s is set, and s is *)
(* inserted under its name unless the name is taken.                     *)
AddSubchart(c, s) ==
  /\ user = Idle
  /\ container' = [container EXCEPT ![s] = c]
  /\ states_' = IF HasState(states_, c, label[s]) THEN states_
                ELSE [states_ EXCEPT ![c] = @ @@ (label[s] :> s)]
  /\ ret' = Call("addSubchart", None)
  /\ UNCHANGED <<outgoingTransitions, currentState, pendingTransition, processState,
                 is_active_, label, eventCallbacks>>
  /\ UNCHANGED <<idleVars, dst, expired, events_, eventObservers>>
  /\ removed' = NothingErased

(* A removeState() without the test for "initial" and "final". *)
RemoveStateAnyName(c, n) ==
  /\ user = Idle
  /\ states_' = [states_ EXCEPT ![c] = [m \in DOMAIN @ \ {n} |-> @[m]]]
  /\ removed' = Erased(c, IF HasState(states_, c, n) THEN states_[c][n] ELSE None)
  /\ ret' = Call("removeState", None)
  /\ UNCHANGED <<outgoingTransitions, currentState, pendingTransition, processState,
                 is_active_, label, container, eventCallbacks>>
  /\ UNCHANGED <<idleVars, dst, expired, events_, eventObservers>>

(* Chart::removeState(n) on chart c: nothing for "initial" and "final",  *)
(* else states_.erase(n).                                                 *)
RemoveState(c, n) ==
  /\ user = Idle
  /\ IF n = "initial" \/ n = "final"
     THEN /\ UNCHANGED states_
          /\ removed' = Erased(c, None)
     ELSE /\ states_' = [states_ EXCEPT ![c] = [m \in DOMAIN @ \ {n} |-> @[m]]]
          /\ removed' = Erased(c, IF HasState(states_, c, n) THEN states_[c][n] ELSE None)
  /\ ret' = Call("removeState", None)
  /\ UNCHANGED <<outgoingTransitions, currentState, pendingTransition, processState,
                 is_active_, label, container, eventCallbacks>>
  /\ UNCHANGED <<idleVars, dst, expired, events_, eventObservers>>

(* Chart::removeState(s) with a handle: removeState(s->name()). *)
RemoveStateHandle(c, s) == RemoveState(c, label[s])

(* The user gives up its handles of a state that no chart holds any more: *)
(* the state is destroyed and every weak_ptr to it expires.               *)
Release(o) ==
  /\ user = Idle
  /\ o \notin DOMAIN states_
  /\ \A c \in DOMAIN states_ : \A n \in DOMAIN states_[c] : states_[c][n] # o
  /\ expired' = expired \cup {o}
  /\ UNCHANGED <<idleVars, objVars, dst, events_, eventObservers, ret, removed>>

(* The test of AbstractState::createTransition(): the two container      *)
(* pointers differ.                                                       *)
DifferentChart(cont, s, d) == cont[s] # cont[d]

(* AbstractState::createTransition(d) on s. *)
CreateTransition(s, d) ==
  /\ user = Idle
  /\ IF DifferentChart(container, s, d)
     THEN /\ ret' = Call("createTransition", "error")
          /\ UNCHANGED <<outgoingTransitions, dst, events_>>
     ELSE /\ NumTransitions + 1 <= MaxTransitions
          /\ LET t == Tr(NumTransitions + 1)
             IN /\ dst' = dst @@ (t :> d)
                /\ events_' = events_ @@ (t :> {})
                /\ outgoingTransitions' = [outgoingTransitions EXCEPT ![s] = Append(@, t)]
                /\ ret' = Call("createTransition", t)
  /\ UNCHANGED <<states_, currentState, pendingTransition, processState, is_active_,
                 label, container, eventCallbacks>>
  /\ UNCHANGED <<idleVars, expired, eventObservers>>
  /\ removed' = NothingErased

(* A purge that looks only for destroyed destinations. *)
KeptByPurgeIfAlive(ts, c, sts) ==
  SelectSeq(ts, LAMBDA t : dst[t] \notin expired)

(* The loop of AbstractState::purgeExpiredTransitions() of a state of    *)
(* chart c: a transition stays when its destination still exists and its *)
(* name is found in states_ of c.                                         *)
KeptByPurge(ts, c, sts) ==
  SelectSeq(ts, LAMBDA t : dst[t] \notin expired /\ HasState(sts, c, label[dst[t]]))

(* AbstractState::purgeExpiredTransitions() on s, a state of a chart. *)
PurgeExpiredTransitions(s) ==
  /\ user = Idle
  /\ container[s] # None
  /\ outgoingTransitions' =
       [outgoingTransitions EXCEPT ![s] = KeptByPurge(@, container[s], states_)]
  /\ ret' = Call("purgeExpiredTransitions", None)
  /\ UNCHANGED <<states_, currentState, pendingTransition, processState, is_active_,
                 label, container, eventCallbacks>>
  /\ UNCHANGED <<idleVars, dst, expired, events_, eventObservers>>
  /\ removed' = NothingErased

(* A walk that stops at the first container. *)
RECURSIVE ClimbOneLevel(_, _, _)
ClimbOneLevel(cont, m, n) == m

(* The while of AbstractState::outmostContainer(), started at chart m:    *)
(* up the container links until a chart without container; n bounds the   *)
(* walk, "loop" stands for a walk that does not end.                      *)
RECURSIVE Climb(_, _, _)
Climb(cont, m, n) ==
  IF cont[m] = None THEN m
  ELSE IF n = 0 THEN "loop"
  ELSE Climb(cont, cont[m], n - 1)

(* AbstractState::outmostContainer() on o: without a container it is     *)
(* sharedPtr<Chart>(), the object itself when it is a chart.             *)
OutmostContainerOf(cont, sts, o) ==
  IF cont[o] = None
  THEN IF o \in DOMAIN sts THEN o ELSE None
  ELSE Climb(cont, cont[o], Cardinality(DOMAIN cont))

(* A call of outmostContainer() on o that returns. *)
OutmostContainerCall(o) ==
  /\ user = Idle
  /\ OutmostContainerOf(container, states_, o) # "loop"
  /\ ret' = Call("outmostContainer", OutmostContainerOf(container, states_, o))
  /\ removed' = NothingErased
  /\ UNCHANGED <<idleVars, objVars, dst, expired, events_, eventObservers>>

(* A program that creates charts and states, nests charts and removes   *)
(* states.                                                                *)
NextConfig ==
  \/ \E n \in ChartNames : CreateChart(n)
  \/ \E c \in LiveCharts : \E n \in StateNames : CreateState(c, n)
  \/ \E c \in LiveCharts : \E s \in LiveCharts \ {c} : AddSubchart(c, s)
  \/ \E c \in LiveCharts : \E n \in {"initial", "final", "s1", "s2"} : RemoveState(c, n)
  \/ \E c \in LiveCharts : \E s \in LiveCharts \ {c} : RemoveStateHandle(c, s)
  \/ \E o \in Live : OutmostContainerCall(o)

SpecConfig == InitConfig /\ [][NextConfig]_vars

(* The state after createChart("c") with createState("s1") and          *)
(* createState("s2") on it, and createChart("s2"): o1 is chart "c" with   *)
(* initial o2, final o3, s1 o4 and s2 o5; o6 is chart "s2" with initial   *)
(* o7 and final o8.  out and d are the transitions created since.         *)
Built(out, d) ==
  /\ root = None
  /\ label = [o \in {Obj(n) : n \in 1..8} |->
        CASE o = "o1" -> "c" [] o \in {"o2", "o7"} -> "initial"
          [] o \in {"o3", "o8"} -> "final" [] o = "o4" -> "s1" [] OTHER -> "s2"]
  /\ container = [o \in {Obj(n) : n \in 1..8} |->
        CASE o \in {"o1", "o6"} -> None [] o \in {"o7", "o8"} -> "o6" [] OTHER -> "o1"]
  /\ states_ = ("o1" :> (("initial" :> "o2") @@ ("final" :> "o3")
                          @@ ("s1" :> "o4") @@ ("s2" :> "o5")))
               @@ ("o6" :> (("initial" :> "o7") @@ ("final" :> "o8")))
  /\ outgoingTransitions = out @@ [o \in {Obj(n) : n \in 1..8} |-> <<>>]
  /\ eventCallbacks = [o \in {Obj(n) : n \in 1..8} |-> {}]
  /\ is_active_ = [o \in {Obj(n) : n \in 1..8} |-> FALSE]
  /\ currentState = ("o1" :> "o2") @@ ("o6" :> "o7")
  /\ pendingTransition = ("o1" :> None) @@ ("o6" :> None)
  /\ processState = ("o1" :> "Entry") @@ ("o6" :> "Entry")
  /\ eventTriggered_ = <<>>
  /\ stateChangeCallbacks = <<>>
  /\ uv = [v \in UserVars |-> FALSE]
  /\ user = Idle
  /\ pc = <<>>
  /\ log = <<>>
  /\ armed = <<>>
  /\ fresh = <<>>
  /\ spent = <<>>
  /\ stepped = <<>>
  /\ nsteps = 0
  /\ snap = {}
  /\ is_running_ = FALSE
  /\ process_thread_ = "none"
  /\ exit_signal_ = FALSE
  /\ notifying = <<>>
  /\ other = OtherIdle
  /\ dst = d
  /\ expired = {}
  /\ events_ = [t \in DOMAIN d |-> {}]
  /\ eventObservers = [e \in Events |-> <<>>]
  /\ ret = Call("none", None)
  /\ removed = NothingErased
  /\ invoked = <<>>

(* No transition is created yet. *)
InitWiring == Built(<<>>, <<>>)

(* The sources and destinations the program passes to createTransition. *)
WiringSources == {"o1", "o2", "o4"}
WiringTargets == {"o4", "o5", "o6", "o7"}

(* A program that connects the states of its charts, nests the charts    *)
(* and removes states.                                                    *)
NextWiring ==
  \/ \E c \in LiveCharts : \E s \in LiveCharts \ {c} : AddSubchart(c, s)
  \/ \E c \in LiveCharts : \E n \in {"initial", "final", "s1", "s2"} : RemoveState(c, n)
  \/ \E c \in LiveCharts : \E s \in LiveCharts \ {c} : RemoveStateHandle(c, s)
  \/ \E o \in Live : Release(o)
  \/ \E s \in WiringSources \cap Live : \E d \in WiringTargets \cap Live : CreateTransition(s, d)
  \/ \E s \in WiringSources \cap Live : PurgeExpiredTransitions(s)

SpecWiring == InitWiring /\ [][NextWiring]_vars

(* Transition::addEvent(event) on transition t. *)
AddEvent(t, e) ==
  /\ user = Idle /\ ~is_running_
  /\ eventObservers' = [eventObservers EXCEPT ![e] = AddObserver(@, t)]
  /\ events_' = [events_ EXCEPT ![t] = @ \cup {e}]
  /\ ret' = Call("addEvent", Bool(e \notin events_[t]))
  /\ removed' = NothingErased
  /\ UNCHANGED <<idleVars, objVars, dst, expired>>

(* Transition::removeEvent(event) on transition t. *)
RemoveEvent(t, e) ==
  /\ user = Idle /\ ~is_running_
  /\ eventObservers' = [eventObservers EXCEPT ![e] = RemoveObserver(@, t)]
  /\ events_' = [events_ EXCEPT ![t] = @ \ {e}]
  /\ ret' = Call("removeEvent", Bool(e \in events_[t]))
  /\ removed' = NothingErased
  /\ UNCHANGED <<idleVars, objVars, dst, expired>>

(* The built charts with the transitions t1 from initial to s1 and t2     *)
(* from s1 to s2 of chart "c".                                            *)
InitSubscribe == Built(("o2" :> <<"t1">>) @@ ("o4" :> <<"t2">>),
                       ("t1" :> "o4") @@ ("t2" :> "o5"))

(* The states on which the program registers event callbacks. *)
SubscribingStates == {"o4", "o5"}

(* A program that subscribes its transitions and states to events and    *)
(* unsubscribes them.                                                     *)
NextSubscribe ==
  \/ \E t \in DOMAIN dst : \E e \in Events : AddEvent(t, e)
  \/ \E t \in DOMAIN dst : \E e \in Events : RemoveEvent(t, e)
  \/ \E s \in SubscribingStates : \E e \in Events : CreateEventCallback(s, e)
  \/ \E s \in SubscribingStates : \E e \in Events : RemoveEventCallback(s, e)

SpecSubscribe == InitSubscribe /\ [][NextSubscribe]_vars

(***************************************************************************)
(* Properties.                                                             *)
(***************************************************************************)

(* The step is the for_each of a Do tick of chart c. *)
ExamineStep(c) == pc[c] = "D_eval" /\ pc'[c] # "D_eval"

(* The outgoing transitions of the current state of chart c. *)
Outgoing(c) == SeqToSet(outgoingTransitions[currentState[c]])

(* t may be taken in a Do tick: its guards hold and, when it subscribes   *)
(* to events, one was triggered while its source was active.             *)
Eligible(t) == AllGuardsTrue(t, uv) /\ (EventsOf(t) = {} \/ armed[t])

Taken(c, t) == pendingTransition'[c] = t /\ pendingTransition[c] # t

(* C1: for a transition with a subscribed event and a guard, a Do tick    *)
(* that finds the event triggered (while the source was active) and the   *)
(* guard false clears the trigger and does not take the transition; and   *)
(* once a trigger was spent this way, no Do tick takes the transition     *)
(* until one of its events is triggered again, whatever the guard is then.*)
C1_TriggerWithFalseGuardIsSpent ==
  [][\A c \in Charts : \A t \in Transitions :
       (ExamineStep(c) /\ t \in Outgoing(c) /\ EventsOf(t) # {} /\ GuardsOf(t) # <<>>)
       => /\ (armed[t] /\ ~AllGuardsTrue(t, uv))
               => (~eventTriggered_'[t] /\ pendingTransition'[c] # t)
          /\ spent[t] => pendingTransition'[c] # t]_vars

(* C1 witness: a Do tick is about to examine m1 after its trigger was     *)
(* spent with the guard false, and the guard has become true since.       *)
C1_Witness ==
  /\ pc["M"] = "D_eval" /\ currentState["M"] = "M.s1"
  /\ spent["m1"] /\ uv["x"]

(* C2: a transition with a subscribed event becomes the pending           *)
(* transition only if one of its events was triggered since it was last   *)
(* examined (its flag last cleared).                                      *)
C2_NoFireWithoutTrigger ==
  [][\A c \in Charts : \A t \in Transitions :
       (EventsOf(t) # {} /\ Taken(c, t)) => armed[t]]_vars

(* C2 witness: after several steps in s1, a Do tick is about to examine   *)
(* m1 with its guard true and without any trigger.                        *)
C2_Witness ==
  /\ pc["M"] = "D_eval" /\ currentState["M"] = "M.s1" /\ nsteps >= 3
  /\ uv["x"] /\ ~armed["m1"] /\ ~spent["m1"]

(* C3: a spinOnce() called while the chart rests in Do in S, with an      *)
(* event of T triggered and all guards of T true, returns with S left;    *)
(* and the Do tick makes T the pending transition when no other outgoing  *)
(* transition is eligible.                                                *)
C3_TriggerWithTrueGuardFires ==
  [][/\ (user.op = "spinOnce" /\ user' = Idle)
         => \A t \in snap : currentState'[ChartOf(t)] # Src(t)
     /\ \A c \in Charts : \A t \in Transitions :
         (/\ ExamineStep(c) /\ t \in Outgoing(c) /\ EventsOf(t) # {}
          /\ armed[t] /\ AllGuardsTrue(t, uv)
          /\ \A t2 \in Outgoing(c) \ {t} : ~Eligible(t2))
         => pendingTransition'[c] = t]_vars

(* C3 witness: spinOnce() was called with m1 due, and its Do tick is      *)
(* about to examine the transitions.                                      *)
C3_Witness ==
  /\ user.op = "spinOnce" /\ "m1" \in snap /\ pc["M"] = "D_eval"

(* C4: the flag of a transition is set only if one of its events was      *)
(* triggered while its source state was active (and no Do tick examined   *)
(* the transition since): a trigger delivered while the source is not     *)
(* active never sets it.                                                  *)
C4_InactiveSourceIgnoresTrigger ==
  \A t \in Transitions : eventTriggered_[t] => armed[t]

(* C4 witness: e1 was triggered while M.s1 was active (m1 is armed), that *)
(* is, while the source S.a of u1, which observes e1 too, was not active; *)
(* the flag of u1 is not set.                                             *)
C4_Witness ==
  /\ user = Idle /\ armed["m1"] /\ is_active_["M.s1"]
  /\ ~IsActive("S.a", is_active_) /\ ~eventTriggered_["u1"]

(* C5: a Do tick never takes an event-less transition one of whose guards *)
(* is false, and takes it when all its guards are true (none is needed)   *)
(* and no other outgoing transition is eligible.                          *)
C5_GuardsAreAnded ==
  [][\A c \in Charts : \A t \in Transitions :
       (ExamineStep(c) /\ t \in Outgoing(c) /\ EventsOf(t) = {})
       => /\ (\E i \in DOMAIN GuardsOf(t) : ~uv[GuardsOf(t)[i]]) => pendingTransition'[c] # t
          /\ ((\A i \in DOMAIN GuardsOf(t) : uv[GuardsOf(t)[i]])
               /\ \A t2 \in Outgoing(c) \ {t} : ~Eligible(t2))
              => pendingTransition'[c] = t]_vars

(* C5 witness: a Do tick is about to examine m2, whose two guards are     *)
(* all true but one.                                                      *)
C5_Witness ==
  /\ pc["M"] = "D_eval" /\ currentState["M"] = "M.s1" /\ uv["x"] /\ ~uv["y"]

(* The records of lg that chart c itself produced: the entry, do and exit *)
(* of its states and the actions of its transitions.                      *)
LevelLog(lg, c) ==
  SelectSeq(lg, LAMBDA r : /\ r.k \in {"entry", "do", "exit", "action"}
                           /\ c = (IF r.k = "action" THEN ChartOf(r.id) ELSE Container(r.id)))

(* C6: a Do tick in which one or more outgoing transitions are eligible   *)
(* makes exactly one of them pending; in one step at most one action of   *)
(* a chart's transitions runs, and when the call returns the chart is in  *)
(* the destination of that transition.  In chart A (initial -> s1 ->      *)
(* final, no guards, no events) the current state after the 1st, 2nd,     *)
(* 3rd and every later step is initial, s1, final, final.                 *)
C6_OneTransitionPerStep ==
  [][/\ \A c \in Charts :
          (ExamineStep(c) /\ \E t \in Outgoing(c) : Eligible(t))
          => (pendingTransition'[c] \in Outgoing(c) /\ Eligible(pendingTransition'[c]))
     /\ \A c \in Charts :
          Cardinality({i \in DOMAIN log' : log'[i].k = "action" /\ ChartOf(log'[i].id) = c}) <= 1
     /\ (user # Idle /\ user' = Idle)
          => \A i \in DOMAIN log' :
               log'[i].k = "action" => currentState'[ChartOf(log'[i].id)] = Dst(log'[i].id)
     /\ (root = "A" /\ user.op = "spinOnce" /\ user' = Idle)
          => currentState'["A"] = (CASE nsteps' = 1 -> "A.initial"
                                     [] nsteps' = 2 -> "A.s1"
                                     [] OTHER -> "A.final")]_vars

(* C6 witness: a Do tick is about to examine m1 and m2, both eligible. *)
C6_Witness ==
  /\ pc["M"] = "D_eval" /\ currentState["M"] = "M.s1"
  /\ Eligible("m1") /\ Eligible("m2")

(* C7: whenever no step is in progress on a chart that completed a step  *)
(* since its creation or reset - spinOnce() or spinToState() has          *)
(* returned, or the thread has ended after stop() - the chart's phase is  *)
(* Do, no transition is pending and the active flag of its current state  *)
(* is set.                                                                *)
C7_StepEndsInDo ==
  \A c \in Charts :
    (pc[c] = "idle" /\ stepped[c] /\ (c = root => process_thread_ # "running"))
    => /\ processState[c] = "Do"
       /\ pendingTransition[c] = None
       /\ is_active_[currentState[c]]

(* C7 witness: stop() has returned on a chart that was running and had    *)
(* moved to s1.                                                           *)
C7_Witness ==
  /\ user = Idle /\ ~is_running_ /\ process_thread_ = "none" /\ exit_signal_
  /\ pc[root] = "idle" /\ stepped[root] /\ currentState[root] = "M.s1"

(* C8: every action in the log is that of a transition that was taken,    *)
(* was invoked once, directly after the exit of its source, while the     *)
(* source was still marked active, and is directly followed by the entry  *)
(* of its destination; and once the Exit phase of a taken transition is   *)
(* over its action has been invoked.                                      *)
C8_ActionBetweenExitAndEntry ==
  /\ \A i \in DOMAIN log :
       log[i].k = "action"
       => /\ i > 1 /\ log[i - 1] = Rec("exit", Src(log[i].id), "")
          /\ log[i].x = "active"
          /\ i < Len(log) => log[i + 1] = Rec("entry", Dst(log[i].id), "")
          /\ \A j \in DOMAIN log : (log[j].k = "action" /\ log[j].id = log[i].id) => j = i
          /\ \/ pendingTransition[ChartOf(log[i].id)] = log[i].id
             \/ currentState[ChartOf(log[i].id)] = Dst(log[i].id)
  /\ \A c \in Charts :
       (processState[c] = "Entry" /\ pendingTransition[c] # None)
       => (log # <<>> /\ log[Len(log)] = Rec("action", pendingTransition[c], "active"))

(* C8 witness: a step that took m2 has returned. *)
C8_Witness ==
  /\ user = Idle /\ Len(log) >= 4
  /\ log[2] = Rec("exit", "M.s1", "") /\ log[3] = Rec("action", "m2", "active")
  /\ log[4] = Rec("entry", "M.final", "")

(* C9: except while an Entry phase is between its entry action and its    *)
(* callbacks, every entry in the log is directly followed by one          *)
(* invocation of each state-change callback registered on that chart, in  *)
(* registration order, with the name of the state entered; no other       *)
(* invocation of a state-change callback exists; the first step after     *)
(* creation or reset reports "initial"; an entry, and so a block of       *)
(* state-change callbacks, exists only for the initial state or directly  *)
(* after the action of a transition taken into that state.                *)
C9_StateChangeCallbacks ==
  /\ \A i \in DOMAIN log :
       log[i].k = "entry"
       => LET cbs == stateChangeCallbacks[Container(log[i].id)]
          IN \/ i = Len(log) /\ pc[Container(log[i].id)] = "E_cb"
             \/ /\ i + Len(cbs) <= Len(log)
                /\ \A j \in DOMAIN cbs : log[i + j] = Rec("change", cbs[j], Name(log[i].id))
                /\ i + Len(cbs) < Len(log) => log[i + Len(cbs) + 1].k # "change"
  /\ \A j \in DOMAIN log :
       log[j].k = "change"
       => \E i \in 1..(j - 1) :
            /\ log[i].k = "entry"
            /\ \A m \in (i + 1)..j : log[m].k = "change"
  /\ (user = Idle /\ nsteps = 1 /\ log # <<>>)
       => log[1] = Rec("entry", InitialOf(states_, root), "")
  /\ \A i \in DOMAIN log :
       log[i].k = "entry"
       => \/ log[i].id = InitialOf(states_, Container(log[i].id))
          \/ i > 1 /\ log[i - 1].k = "action" /\ Dst(log[i - 1].id) = log[i].id

(* C9 witness: on chart A, after k1 was removed and k2 created, a step    *)
(* entered s1 and reported it to k2.                                      *)
C9_Witness ==
  /\ user = Idle /\ root = "A" /\ stateChangeCallbacks["A"] = <<"k2">>
  /\ \E i \in DOMAIN log : log[i] = Rec("change", "k2", "s1")

(* C10: a spinOnce() that starts with the chart resting in Do in state A  *)
(* invokes, of that chart, either just the do of A, or the do of A, the   *)
(* exit of A, the action of the transition taken and the entry of its     *)
(* destination B, in this order and nothing after; the first step after   *)
(* creation or reset only enters initial.                                 *)
C10_StepCallbackOrder ==
  [][(user.op = "spinOnce" /\ user' = Idle)
     => LET L == LevelLog(log', root)
        IN IF stepped[root]
           THEN \/ L = <<Rec("do", currentState'[root], "")>>
                \/ \E t \in Transitions :
                     /\ L = <<Rec("do", Src(t), ""), Rec("exit", Src(t), ""),
                              Rec("action", t, "active"), Rec("entry", Dst(t), "")>>
                     /\ currentState'[root] = Dst(t)
           ELSE L = <<Rec("entry", InitialOf(states_, root), "")>>]_vars

(* C10 witness: a spinOnce() that began in Do in the leaf M.s1 and took   *)
(* m2 has returned.                                                       *)
C10_Witness ==
  /\ user = Idle /\ root = "M" /\ nsteps >= 2
  /\ LevelLog(log, "M") = <<Rec("do", "M.s1", ""), Rec("exit", "M.s1", ""),
                            Rec("action", "m2", "active"), Rec("entry", "M.final", "")>>

(* The step is one of the user's thread inside Event::trigger(). *)
UserNotifyStep ==
  /\ user.op \in {"trigger", "notify", "resume"}
  /\ (user' # user \/ notifying' # notifying)

(* C11: with one foreign thread, a step of that thread inside             *)
(* Event::trigger() on a running chart changes a consumed flag only after *)
(* the join of the pause, while the chart's thread does not exist and the *)
(* chart is not running, only for the notified transition and only if     *)
(* its source is active then; that step restarts the thread whether or    *)
(* not it stored the flag, and the chart is running when trigger()        *)
(* returns.                                                               *)
C11_FlagStoredWhilePaused ==
  [][UserNotifyStep
     => /\ (eventTriggered_' # eventTriggered_)
            => /\ user.op = "resume"
               /\ process_thread_ = "none" /\ ~is_running_
               /\ IsActive(Src(Head(notifying)), is_active_)
               /\ eventTriggered_' = [eventTriggered_ EXCEPT ![Head(notifying)] = TRUE]
        /\ (user.op = "resume" /\ ~IsActive(Src(Head(notifying)), is_active_))
            => eventTriggered_' = eventTriggered_
        /\ user.op = "resume" => (is_running_' /\ process_thread_' = "running")
        /\ user' = Idle => (is_running_' /\ process_thread_' = "running")]_vars

(* C11 witness: the user's trigger of e1 has stored the flag of m1 after  *)
(* the pause and restarted the thread, which has not moved yet.           *)
C11_Witness ==
  /\ user = [op |-> "trigger", arg |-> "e1"] /\ notifying = Tail(EventObservers("e1"))
  /\ eventTriggered_["m1"] /\ is_active_["M.s1"]
  /\ is_running_ /\ process_thread_ = "running" /\ pc["M"] = "begin"

(* C12: whatever the interleaving of spinAsync(), stop() and              *)
(* Event::trigger() calls of several threads, no thread is started for    *)
(* the chart while its previous thread exists and has not been joined     *)
(* (the start that std::terminate() answers).                             *)
C12_NoStartWhileUnjoined == process_thread_ # "terminated"

(* C13: when stop() returns the chart's thread has exited and             *)
(* isRunning() is false, and the chart does not become running while the  *)
(* caller has not called spinAsync() again, also while another thread     *)
(* triggers events.                                                       *)
C13_StopReturnsStopped ==
  [][/\ user' = Returning("stop") => (~is_running_' /\ process_thread_' = "none")
     /\ (user = Returning("stop") /\ ~is_running_) => ~is_running_']_vars

(* C14: under a fair scheduler, once spinAsync() has started chart A      *)
(* (initial -> s1 -> final, no guards, no events) its current state       *)
(* eventually is final, and once final it stays final.                    *)
C14_AsyncReachesFinal ==
  /\ (root = "A" /\ is_running_) ~> (currentState["A"] = "A.final")
  /\ [][(root = "A" /\ currentState["A"] = "A.final")
         => currentState'["A"] = "A.final"]_vars

(* C14 witness: the thread of chart A is running and the chart is in final. *)
C14_Witness ==
  /\ root = "A" /\ is_running_ /\ process_thread_ = "running"
  /\ currentState["A"] = "A.final" /\ is_active_["A.final"]

(* stop() is returning on a chart that ran asynchronously and is in final. *)
StoppedInFinal ==
  /\ user = Returning("stop") /\ exit_signal_
  /\ currentState[root] = states_[root]["final"]

(* The states below the root chart. *)
StatesOfRoot == {s \in States : s # root /\ OutmostContainer(s) = root}

(* C15 as stated: after an asynchronous run has reached final and stop()  *)
(* has returned, isRunning() is false and no state of the chart is        *)
(* marked active.                                                         *)
C15_NoStateActiveAfterStop ==
  StoppedInFinal
  => (~is_running_ /\ \A s \in StatesOfRoot : ~IsActive(s, is_active_))

(* C15 amended: after an asynchronous run has reached final and stop()    *)
(* has returned, isRunning() is false and final, the current state, is    *)
(* the only state of the chart that is active.                            *)
C15_OnlyFinalActiveAfterStop ==
  StoppedInFinal
  => /\ ~is_running_
     /\ \A s \in StatesOfRoot :
          IsActive(s, is_active_) <=> s = states_[root]["final"]

(* C15 witness: stop() is returning on chart M, which ran to final. *)
C15_Witness ==
  StoppedInFinal /\ root = "M" /\ is_active_["M.final"] /\ process_thread_ = "none"

(* The user's Event::trigger(e) has just been called while chart c rests  *)
(* in the active source of t with all guards of t true.                   *)
TriggeredAtRest(e, t) ==
  /\ user = [op |-> "trigger", arg |-> e] /\ notifying = EventObservers(e)
  /\ currentState[ChartOf(t)] = Src(t) /\ IsActive(Src(t), is_active_)
  /\ AllGuardsTrue(t, uv)

(* notify() of t on the user's thread has paused the chart and is about   *)
(* to look at the source again: it is active and all guards of t hold.    *)
LandsAtRest(t) ==
  /\ user.op = "resume" /\ Head(notifying) = t
  /\ IsActive(Src(t), is_active_) /\ AllGuardsTrue(t, uv)

C17_SpinAsyncRefusal ==
  [][\A c \in Charts : SpinAsync(c) =>
       /\ (process_thread_' # process_thread_ \/ is_running_' # is_running_)
            => (Container(c) = None /\ ~is_running_)
       /\ (Container(c) # None \/ is_running_)
            => UNCHANGED <<is_running_, process_thread_, exit_signal_, pc, currentState,
                           pendingTransition, processState, is_active_, eventTriggered_>>
       /\ (Container(c) = None /\ ~is_running_ /\ ~Joinable(process_thread_))
            => (is_running_' /\ process_thread_' = "running")]_vars

(* spinAsync() of the contained chart S has returned and nothing runs. *)
C17_Witness ==
  /\ user = Returning("spinAsync") /\ root = "M"
  /\ ~is_running_ /\ process_thread_ = "none"

(* C18: spin(), spinOnce() and spinToState() called while a background   *)
(* run is active return without executing any phase on the calling        *)
(* thread: the call changes neither a current state, a phase, a pending   *)
(* transition, an active flag nor a trigger flag, runs no callback, and   *)
(* the caller is never inside one of the three loops while isRunning().   *)
C18_SpinRefusedWhileRunning ==
  [][/\ ((SpinOnce \/ Spin \/ \E n \in {"initial", "s1", "final"} : SpinToState(n))
          /\ is_running_)
        => /\ user'.op = "returning"
           /\ UNCHANGED <<currentState, processState, pendingTransition, is_active_,
                          eventTriggered_, pc, log, is_running_, process_thread_>>
     /\ is_running_' => user'.op \notin {"spin", "spinOnce", "spinToState"}]_vars

(* spinOnce() has been refused: it returns while the thread is running. *)
C18_Witness ==
  /\ user = Returning("spinOnce") /\ is_running_ /\ process_thread_ = "running"

(* C19: after reset() returns, from any reachable state of the chart,    *)
(* isRunning() is false, the thread is joined, the current state is       *)
(* initial, the phase is Entry, no transition is pending and no state of  *)
(* the chart, at any depth, reports isActive().                           *)
C19_ResetPostcondition ==
  user = Returning("reset") =>
    /\ ~is_running_ /\ process_thread_ = "none"
    /\ currentState[root] = InitialOf(states_, root)
    /\ processState[root] = "Entry"
    /\ pendingTransition[root] = None
    /\ \A s \in StatesOfRoot : ~IsActive(s, is_active_)

(* reset() of a chart that was stopped inside the subchart S has          *)
(* returned: S.a keeps its own flag and still does not report active.     *)
C19_Witness ==
  /\ user = Returning("reset") /\ root = "M" /\ exit_signal_
  /\ is_active_["S.a"] /\ ~is_active_["S"]

(* The step in which chart c takes its pending transition into the chart  *)
(* sub used as a state: the Entry phase up to actionEntry().              *)
EntersSubchart(c, sub) ==
  /\ pc[c] = "begin" /\ processState[c] = "Entry" /\ pc'[c] = "E_cb"
  /\ pendingTransition[c] # None /\ currentState'[c] = sub

(* C20: every time the chart S used as a state is entered by its parent   *)
(* it is reset, whatever state it was in when it was last left: its       *)
(* current state becomes its own initial, its phase Entry, its pending    *)
(* transition is cleared and its previous current state is deactivated;   *)
(* and an Entry phase of S without a pending transition enters initial.   *)
C20_SubchartResetOnEntry ==
  [][/\ EntersSubchart("M", "S") =>
          /\ currentState'["S"] = InitialOf(states_, "S")
          /\ processState'["S"] = "Entry"
          /\ pendingTransition'["S"] = None
          /\ ~is_active_'[currentState["S"]]
     /\ (pc["S"] = "begin" /\ processState["S"] = "Entry" /\ pc'["S"] = "E_cb"
          /\ pendingTransition["S"] = None)
          => currentState'["S"] = InitialOf(states_, "S")]_vars

(* S has just been entered again after an earlier stay in which it had    *)
(* reached S.a and examined u1 there.                                     *)
C20_Witness ==
  /\ pc["M"] = "E_cb" /\ currentState["M"] = "S" /\ spent["u1"]
  /\ currentState["S"] = "S.initial" /\ processState["S"] = "Entry"

(* The charts above s, from its container up to the outermost chart. *)
RECURSIVE Ancestors(_)
Ancestors(s) ==
  IF Container(s) = None THEN {} ELSE {Container(s)} \cup Ancestors(Container(s))

(* C21: isActive() of a state is true when the state has no container;   *)
(* otherwise it is the conjunction of its own active flag with the own    *)
(* flags of every ancestor chart that itself has a container. Hence a     *)
(* state inside a subchart reports active only while the subchart is the  *)
(* current state of its parent and carries the active flag.               *)
C21_IsActiveIsConjunction ==
  /\ \A s \in States :
       IsActive(s, is_active_) <=>
         \/ Container(s) = None
         \/ /\ is_active_[s]
            /\ \A a \in Ancestors(s) : Container(a) # None => is_active_[a]
  /\ \A s \in States :
       (Container(s) # None /\ Container(Container(s)) # None /\ IsActive(s, is_active_))
         => /\ currentState[Container(Container(s))] = Container(s)
            /\ is_active_[Container(s)]

(* S.a still carries its own flag after the parent has left S: it        *)
(* reports inactive.                                                      *)
C21_Witness ==
  /\ is_active_["S.a"] /\ ~is_active_["S"] /\ currentState["M"] # "S"
  /\ ~IsActive("S.a", is_active_)

(* How often the callback of state s for event e occurs in inv. *)
Invocations(inv, s, e) == Cardinality({i \in DOMAIN inv : inv[i] = <<s, e>>})

(* inv is what a trigger of e must invoke when the active flags are act:  *)
(* once the callback for e of every state that holds one and isActive(),  *)
(* and nothing else.                                                      *)
InvokedExactly(inv, e, act) ==
  /\ \A s \in States :
       Invocations(inv, s, e) =
         IF e \in eventCallbacks[s] /\ IsActive(s, act) THEN 1 ELSE 0
  /\ \A i \in DOMAIN inv : inv[i][2] = e

(* C22: when an event is triggered, a state's callback registered for    *)
(* that event is invoked exactly once if and only if the state's          *)
(* isActive() is true at that moment; callbacks for other events, of      *)
(* inactive states (also of states of an inactive subchart) and removed   *)
(* callbacks are not invoked. This holds for a trigger by the user and    *)
(* for a trigger from inside a callback of a step.                        *)
C22_EventCallbackIffActive ==
  [][/\ \A e \in Events : Trigger(e) => InvokedExactly(invoked', e, is_active_)
     /\ invoked' # invoked => \E e \in Events : InvokedExactly(invoked', e, is_active_)]_vars

(* e1 was triggered while S.a, which holds a callback for e1 and still   *)
(* carries its own flag, is in the inactive subchart S: only the          *)
(* callback of the active M.s1 was invoked.                               *)
C22_Witness ==
  /\ invoked = << <<"M.s1", "e1">> >>
  /\ "e1" \in eventCallbacks["S.a"] /\ "e2" \in eventCallbacks["S.a"]
  /\ is_active_["S.a"] /\ ~IsActive("S.a", is_active_)


(* C23: after any sequence of createChart, createState, addSubchart and    *)
(* removeState calls every chart holds the names "initial" and "final"     *)
(* and getStateCount() is at least 2; removeState("initial") and           *)
(* removeState("final") change no field of any chart or state.             *)
C23_InitialFinalKept ==
  [][/\ \A c \in DOMAIN states_' :
          /\ {"initial", "final"} \subseteq DOMAIN states_'[c]
          /\ StateCount(states_', c) >= 2
     /\ \A c \in LiveCharts : \A n \in {"initial", "final"} :
          RemoveState(c, n) => UNCHANGED <<objVars, dst, events_>>]_vars

(* The only chart holds initial, final, s1 and s2, and the last call was a *)
(* removeState on it that erased nothing: its name was "initial" or        *)
(* "final".                                                                 *)
C23_Witness ==
  \E c \in DOMAIN states_ :
    /\ DOMAIN states_ = {c}
    /\ DOMAIN states_[c] = {"initial", "final", "s1", "s2"}
    /\ ret.op = "removeState"
    /\ removed = Erased(c, None)


(* C24: createChart("") and createState("") end with a configuration       *)
(* error, and a createState that ends with the error leaves the state      *)
(* mapping and the state count of every chart as they were.                *)
C24_EmptyNameRefused ==
  [][/\ CreateChart("") => ret' = Call("createChart", "error") /\ UNCHANGED objVars
     /\ \A c \in LiveCharts :
          CreateState(c, "") =>
            /\ ret' = Call("createState", "error")
            /\ UNCHANGED objVars
            /\ StateCount(states_', c) = StateCount(states_, c)
     /\ \A c \in LiveCharts :
          "" \notin DOMAIN states_'[c]]_vars

(* createState("") has just failed on a chart that holds a state besides   *)
(* initial and final.                                                       *)
C24_Witness ==
  /\ ret = Call("createState", "error")
  /\ \E c \in DOMAIN states_ : "s1" \in DOMAIN states_[c]


(* C25: createState(n) with a name n that the chart holds, registered by   *)
(* createState or by addSubchart, returns the handle registered under n    *)
(* and leaves the state mapping and the state count unchanged.             *)
C25_CreateStateIdempotent ==
  [][\A c \in LiveCharts : \A n \in StateNames \ {""} :
       HasState(states_, c, n) /\ CreateState(c, n) =>
         /\ ret' = Call("createState", states_[c][n])
         /\ states_' = states_
         /\ StateCount(states_', c) = StateCount(states_, c)]_vars

(* s and d are states of the same chart. *)
SameChart(s, d) == container[s] # None /\ container[s] = container[d]

(* C26: createTransition(d) on s ends with a configuration error and       *)
(* leaves the transitions of s unchanged whenever s and d are not states   *)
(* of the same chart, two charts without container included; it adds       *)
(* exactly one transition, to d, when both belong to the same chart.       *)
C26_TransitionOnlyWithinChart ==
  [][\A s \in WiringSources \cap Live : \A d \in WiringTargets \cap Live :
       CreateTransition(s, d) =>
         IF SameChart(s, d)
         THEN /\ ret'.val # "error"
              /\ Len(outgoingTransitions'[s]) = Len(outgoingTransitions[s]) + 1
              /\ dst'[ret'.val] = d
         ELSE /\ ret'.val = "error"
              /\ UNCHANGED outgoingTransitions]_vars

(* The object o is registered in chart c. *)
Registered(sts, c, o) == \E n \in DOMAIN sts[c] : sts[c][n] = o

(* The transitions of ts that do not lead to x. *)
NotTo(ts, x) == SelectSeq(ts, LAMBDA t : dst[t] # x)

(* C27 as stated: a purge on a state s that follows a removeState(x) on    *)
(* the chart of s removes exactly the transitions of s that lead to x.     *)
C27_PurgeRemovesOnlyRemoved ==
  [][\A s \in WiringSources \cap Live :
       (/\ PurgeExpiredTransitions(s)
        /\ removed.chart = container[s]
        /\ removed.obj # None) =>
         outgoingTransitions'[s] = NotTo(outgoingTransitions[s], removed.obj)]_vars

(* C27 amended: when every transition of s led to a state registered in    *)
(* the chart before removeState erased x, the purge on s removes exactly   *)
(* the transitions of s that lead to x and keeps the others in place; and  *)
(* after any purge every transition left leads to an existing state whose  *)
(* name the chart holds, so that a second purge removes nothing.           *)
C27_PurgeAfterRemove ==
  [][\A s \in WiringSources \cap Live :
       PurgeExpiredTransitions(s) =>
         /\ (/\ removed.chart = container[s]
             /\ removed.obj # None
             /\ \A i \in 1..Len(outgoingTransitions[s]) :
                  \/ dst[outgoingTransitions[s][i]] = removed.obj
                  \/ Registered(states_, container[s], dst[outgoingTransitions[s][i]]))
            => outgoingTransitions'[s] = NotTo(outgoingTransitions[s], removed.obj)
         /\ \A i \in 1..Len(outgoingTransitions'[s]) :
              /\ dst[outgoingTransitions'[s][i]] \notin expired
              /\ HasState(states_, container[s], label[dst[outgoingTransitions'[s][i]]])]_vars

(* A purge has just taken one of two transitions away: the one left leads  *)
(* to a state registered in its chart, the other to a state that is not.   *)
C27_Witness ==
  /\ ret.op = "purgeExpiredTransitions"
  /\ \E s \in DOMAIN outgoingTransitions : \E t, u \in DOMAIN dst :
       /\ container[s] # None
       /\ outgoingTransitions[s] = <<t>>
       /\ Registered(states_, container[s], dst[t])
       /\ u # t
       /\ \A o \in DOMAIN outgoingTransitions \ {s} : outgoingTransitions[o] = <<>>
       /\ ~Registered(states_, container[s], dst[u])


(* The observers of e: the states with a callback for e and the            *)
(* transitions with e in their events.                                      *)
Subscribers(cbs, evs, e) ==
  {s \in DOMAIN cbs : e \in cbs[s]} \cup {t \in DOMAIN evs : e \in evs[t]}

(* C28: addEvent, removeEvent, createEventCallback and removeEventCallback *)
(* return true exactly when they change the subscriptions of the object    *)
(* they are called on, a call that returns false changes nothing, and      *)
(* afterwards observerCount() of every event is the number of states and   *)
(* transitions subscribed to it, each entered once.                         *)
C28_SubscriptionCount ==
  [][/\ \A t \in DOMAIN dst : \A e \in Events :
          AddEvent(t, e) \/ RemoveEvent(t, e) =>
            /\ (ret'.val = "true") <=> (events_'[t] # events_[t])
            /\ ret'.val = "false" => UNCHANGED <<events_, eventObservers>>
     /\ \A s \in SubscribingStates : \A e \in Events :
          CreateEventCallback(s, e) \/ RemoveEventCallback(s, e) =>
            /\ (ret'.val = "true") <=> (eventCallbacks'[s] # eventCallbacks[s])
            /\ ret'.val = "false" => UNCHANGED <<eventCallbacks, eventObservers>>
     /\ \A e \in Events :
          /\ Len(eventObservers'[e]) = Cardinality(Subscribers(eventCallbacks', events_', e))
          /\ SeqToSet(eventObservers'[e]) = Subscribers(eventCallbacks', events_', e)]_vars

(* A second addEvent has just returned false on an event observed by two   *)
(* transitions and a state.                                                 *)
C28_Witness ==
  /\ ret = Call("addEvent", "false")
  /\ \E e \in Events :
       /\ Len(eventObservers[e]) = 3
       /\ \E s \in SubscribingStates : e \in eventCallbacks[s]
       /\ \A t \in DOMAIN dst : e \in events_[t]


(* C29: in every state from which spinToState(name) on a chart that is     *)
(* not running returns, that is when no call is under way and the current  *)
(* state of the chart has the name, the phase is Do and the current state  *)
(* is active, as after the spinOnce() that reached the state.              *)
C29_SpinToStateArrives ==
  \A c \in Charts : \A s \in States :
    (/\ c = root
     /\ user = Idle
     /\ ~Refuses(is_running_)
     /\ ~NotAtState(currentState[c], Name(s))) =>
       /\ processState[c] = "Do"
       /\ IsActive(currentState[c], is_active_)


(* C30: the for_each of a Do tick calls shouldPerform() on every outgoing  *)
(* transition of the current state: afterwards the flag of every           *)
(* event-subscribed one is clear, whichever transition is taken, the flag  *)
(* of a transition without events is as it was, and the chart leaves the   *)
(* Do phase exactly when one of the calls returned true.                   *)
C30_EveryTransitionExamined ==
  [][\A c \in Charts :
       ExamineStep(c) =>
         /\ \A t \in Outgoing(c) :
              /\ EventsOf(t) # {} => ~eventTriggered_'[t]
              /\ EventsOf(t) = {} => eventTriggered_'[t] = eventTriggered_[t]
         /\ (\E t \in Outgoing(c) : ShouldPerform(t, eventTriggered_[t], uv).ret)
              <=> processState'[c] = "Exit"]_vars

(* In this spinOnce() m1 was due with its event triggered, m2 was taken    *)
(* and the flag of m1 is clear.                                             *)
C30_Witness ==
  /\ root = "M"
  /\ user.op = "spinOnce"
  /\ "m1" \in snap
  /\ processState["M"] = "Exit"
  /\ pendingTransition["M"] = "m2"
  /\ ~eventTriggered_["m1"]


(* C31: Transition::notify() called on the process thread never calls      *)
(* stop() or spinAsync(): while the chart runs only a stop() of the user   *)
(* clears is_running_ and sets the exit signal; and a flag is set only     *)
(* for a transition whose source is active.                                *)
C31_NoPauseOnOwnThread ==
  [][/\ (is_running_ /\ ~is_running_') => user'.op = "stop"
     /\ (~exit_signal_ /\ exit_signal_') => user'.op = "stop"
     /\ \A t \in Transitions :
          (~eventTriggered_[t] /\ eventTriggered_'[t]) => IsActive(Src(t), is_active_)]_vars


(* Chart::actionDo() of sub, called by the Do phase of chart c, returns. *)
SubchartStepped(c, sub) ==
  /\ currentState[c] = sub
  /\ pc[c] = "D_sub" /\ pc'[c] = "D_eval"

(* C32: when the actionDo() of a subchart returns to the Do tick of its    *)
(* parent, the subchart is in phase Do with its current state active and   *)
(* has made one step: the first tick after the parent entered it is the    *)
(* entry of its initial state and nothing else; every later tick is the do *)
(* of its current state, followed either by nothing or by the exit of that *)
(* state, the action of one of its transitions and the entry of the        *)
(* destination.                                                            *)
C32_SubchartOneStepPerTick ==
  [][\A c \in Charts : \A sub \in Charts :
       SubchartStepped(c, sub) =>
         LET l == LevelLog(log', sub)
         IN /\ processState'[sub] = "Do"
            /\ pendingTransition'[sub] = None
            /\ is_active_'[currentState'[sub]]
            /\ ~stepped[sub] =>
                 /\ l = <<Rec("entry", InitialOf(states_, sub), "")>>
                 /\ currentState'[sub] = InitialOf(states_, sub)
            /\ stepped[sub] =>
                 \E s \in DOMAIN states_[sub] :
                   LET cs == states_[sub][s]
                   IN \/ l = <<Rec("do", cs, "")>> /\ currentState'[sub] = cs
                      \/ \E t \in SeqToSet(outgoingTransitions[cs]) :
                           /\ l = <<Rec("do", cs, ""), Rec("exit", cs, ""),
                                    Rec("action", t, "active"), Rec("entry", Dst(t), "")>>
                           /\ currentState'[sub] = Dst(t)]_vars

(* The Do tick of M has just driven S from its initial state into a.       *)
C32_Witness ==
  /\ pc["M"] = "D_eval" /\ currentState["M"] = "S"
  /\ currentState["S"] = "S.a"
  /\ \E i \in DOMAIN log : log[i] = Rec("action", "u0", "active")


(* C33: reset() of a chart changes neither the current state, the phase    *)
(* and the pending transition of a chart nested in it nor the active flag  *)
(* of any state inside the nested chart; and after the reset isActive()    *)
(* of every state inside the nested chart is false.                        *)
C33_ResetLeavesNestedChart ==
  [][Reset =>
       \A sub \in Charts :
         Container(sub) = root =>
           /\ currentState'[sub] = currentState[sub]
           /\ processState'[sub] = processState[sub]
           /\ pendingTransition'[sub] = pendingTransition[sub]
           /\ \A s \in States :
                Container(s) = sub =>
                  /\ is_active_'[s] = is_active_[s]
                  /\ ~IsActive(s, is_active_')]_vars

(* reset() of M has returned; the nested chart S is still in phase Do in   *)
(* its state a, whose flag is set.                                          *)
C33_Witness ==
  /\ user = Returning("reset") /\ root = "M"
  /\ currentState["M"] = "M.initial" /\ processState["M"] = "Entry"
  /\ currentState["S"] = "S.a" /\ processState["S"] = "Do" /\ is_active_["S.a"]


(* The chart sub is nested in the chart the program drives and is not the  *)
(* current state of its parent, before and after the step.                 *)
NotCurrent(sub) ==
  /\ sub # root /\ OutmostContainer(sub) = root
  /\ currentState[Container(sub)] # sub
  /\ currentState'[Container(sub)] # sub

(* C34: a step that neither starts nor ends with the subchart as the       *)
(* current state of its parent leaves the subchart alone: its current      *)
(* state, phase, pending transition and position in process() and the      *)
(* active flags of its states are unchanged and no callback of its states  *)
(* or transitions is added to the log.                                     *)
C34_IdleSubchartUntouched ==
  [][\A sub \in Charts :
       NotCurrent(sub) =>
         /\ currentState'[sub] = currentState[sub]
         /\ processState'[sub] = processState[sub]
         /\ pendingTransition'[sub] = pendingTransition[sub]
         /\ pc[sub] = "idle" /\ pc'[sub] = "idle"
         /\ \A s \in States : Container(s) = sub => is_active_'[s] = is_active_[s]
         /\ Len(LevelLog(log', sub)) <= Len(LevelLog(log, sub))]_vars

(* A Do tick of M in s1 has run its do callback while S, left earlier,     *)
(* rests in phase Do in its initial state, whose transition has no guard   *)
(* and no event.                                                           *)
C34_Witness ==
  /\ root = "M" /\ pc["M"] = "D_eval" /\ currentState["M"] = "M.s1"
  /\ currentState["S"] = "S.initial" /\ processState["S"] = "Do"
  /\ is_active_["S.initial"]


(* The charts above o: its container, the container of that, and so on. *)
RECURSIVE Up(_, _)
Up(S, n) ==
  IF n = 0 THEN S
  ELSE Up(S \cup ({container[x] : x \in S} \ {None}), n - 1)

ContainerChain(o) == Up({container[o]} \ {None}, NumObjects)

(* C35 as stated: outmostContainer() on an object with a container         *)
(* returns the chart without container at the end of its container links,  *)
(* and on a chart without container it returns none.                       *)
C35_OutmostContainerNoneForRoot ==
  [][\A o \in Live :
       OutmostContainerCall(o) =>
         IF container[o] = None
         THEN ret'.val = None
         ELSE ret'.val \in ContainerChain(o) /\ container[ret'.val] = None]_vars

(* C35 amended: outmostContainer() on an object with a container returns   *)
(* the chart without container at the end of its container links, and on   *)
(* a chart without container it returns that chart.                        *)
C35_OutmostContainer ==
  [][\A o \in Live :
       OutmostContainerCall(o) =>
         IF container[o] = None
         THEN ret'.val = o
         ELSE ret'.val \in ContainerChain(o) /\ container[ret'.val] = None]_vars

(* outmostContainer() has returned the chart two container links above a   *)
(* state.                                                                   *)
C35_Witness ==
  /\ ret.op = "outmostContainer"
  /\ \E o \in DOMAIN container :
       /\ container[o] # None
       /\ container[container[o]] = ret.val
       /\ container[ret.val] = None


(* C36: every state or chart that has a container is registered under its  *)
(* own name in the mapping of that container and in the mapping of no      *)
(* other chart, and whatever a chart's mapping holds has that chart as its *)
(* container.                                                              *)
C36_OwnedByContainer ==
  /\ \A o \in Live :
       container[o] # None =>
         /\ HasState(states_, container[o], label[o])
         /\ states_[container[o]][label[o]] = o
         /\ \A c \in DOMAIN states_ \ {container[o]} : ~Registered(states_, c, o)
  /\ \A c \in DOMAIN states_ : \A n \in DOMAIN states_[c] :
       /\ container[states_[c][n]] = c
       /\ label[states_[c][n]] = n

(***************************************************************************)
(* Removing a state of a chart that is being stepped.                      *)
(***************************************************************************)

(* Chart::removeState(n) on the root, called between two calls that step   *)
(* it: nothing for "initial" and "final", else states_.erase(n).           *)
(* currentState, pendingTransition and the outgoing transitions are not    *)
(* looked at.  The program keeps the handles createState() and             *)
(* createChart() gave it, so the erased object stays alive.                *)
RemoveStateBuilt(n) ==
  /\ user = Idle /\ ~is_running_
  /\ HasState(states_, root, n)
  /\ IF n = "initial" \/ n = "final"
     THEN UNCHANGED states_
     ELSE states_' = [states_ EXCEPT ![root] = [m \in DOMAIN @ \ {n} |-> @[m]]]
  /\ UNCHANGED <<root, outgoingTransitions, currentState, pendingTransition,
                 processState, is_active_, eventTriggered_, stateChangeCallbacks, uv,
                 user, pc, log, armed, fresh, spent, stepped, nsteps, snap>>
  /\ UNCHANGED <<is_running_, process_thread_, exit_signal_, notifying, other>>
  /\ UNCHANGED <<confVars, invoked>>

NextRemove ==
  \/ \E c \in Charts : ProcessEntry(c)
  \/ \E c \in Charts : ProcessEntryCallbacks(c)
  \/ \E c \in Charts : ProcessDoAction(c)
  \/ \E c \in Charts : ProcessDoEval(c)
  \/ \E c \in Charts : ProcessExitAction(c)
  \/ \E c \in Charts : ProcessExitTransition(c)
  \/ SpinOnce
  \/ \E n \in {"initial", "s1", "final"} : SpinToState(n)
  \/ Reset
  \/ Return
  \/ \E e \in Events : Trigger(e)
  \/ \E v \in UserVars : SetGuard(v)
  \/ \E n \in {"initial", "s1", "S"} : RemoveStateBuilt(n)

SpecRemove == Init /\ [][NextRemove]_vars

(* C37: in every state of a chart that is not running, the current state   *)
(* of each chart is registered in that chart's own states_.                *)
C37_CurrentStateRegistered ==
  ~is_running_ => \A c \in Charts : Registered(states_, c, currentState[c])

(* The states of chart c whose own flag is_active_ is set. *)
OwnFlagSet(c) == {s \in States : Container(s) = c /\ is_active_[s]}

(* C38: at most one state of each chart has its own active flag set; when  *)
(* one has, it is the chart's current state and the chart's phase is Do or *)
(* Exit; in phase Entry no state of the chart has its own flag set.        *)
C38_OneActiveState ==
  \A c \in Charts :
    /\ Cardinality(OwnFlagSet(c)) <= 1
    /\ OwnFlagSet(c) # {} =>
         /\ OwnFlagSet(c) = {currentState[c]}
         /\ processState[c] \in {"Do", "Exit"}
    /\ processState[c] = "Entry" => OwnFlagSet(c) = {}

(* A state of a nested chart keeps its own flag while the parent has left *)
(* the chart, and the root rests in another state with its flag set.       *)
C38_Witness ==
  /\ user = Idle
  /\ root = "M"
  /\ currentState["M"] = "M.s1" /\ OwnFlagSet("M") = {"M.s1"}
  /\ processState["M"] = "Do"
  /\ OwnFlagSet("S") = {currentState["S"]}
  /\ stepped["M"]

(* C39: whenever a chart's phase is Exit its pending transition is set and *)
(* is an outgoing transition of the current state; whenever the phase is   *)
(* Do at the start of a tick, and just after reset(), none is pending.     *)
C39_PendingMatchesPhase ==
  /\ [](\A c \in Charts :
          /\ processState[c] = "Exit" =>
               /\ pendingTransition[c] # None
               /\ pendingTransition[c] \in Outgoing(c)
          /\ processState[c] = "Do" /\ pc[c] \in {"begin", "idle"} =>
               pendingTransition[c] = None)
  /\ [][Reset => pendingTransition'[root] = None]_vars

(* The Exit phase of the root begins with one of two transitions of M.s1   *)
(* pending.                                                                *)
C39_Witness ==
  /\ root = "M"
  /\ processState["M"] = "Exit" /\ pc["M"] = "begin"
  /\ currentState["M"] = "M.s1"
  /\ Len(outgoingTransitions["M.s1"]) = 2
  /\ pendingTransition["M"] = "m2"

(* C40: an event-subscribed transition is taken only if one of its events  *)
(* was triggered during the current activation of its source, after the    *)
(* source's most recent Entry: a trigger recorded in an earlier activation *)
(* never makes it fire after the source is entered again.                  *)
C40_NoStaleTrigger ==
  [][\A c \in Charts : \A t \in Transitions :
       (EventsOf(t) # {} /\ Taken(c, t)) => fresh[t]]_vars

=============================================================================
